---- MODULE Spec2Model ----
(***************************************************************************)
(* A model of lsst-templatebot-aide: the Kafka event consumption loop     *)
(* (consume_events), the event router (route_event), the prerender and    *)
(* postrender workflow handlers, and the technote numbering policy        *)
(* (propose_number).                                                       *)
(*                                                                         *)
(* A coroutine is modelled by its position: the call it is awaiting.  One  *)
(* step of the model resumes the coroutine with the outcome of that call   *)
(* (a result, an exception, or the CancelledError that Task.cancel()       *)
(* throws at the await) and runs it up to its next await, its return or    *)
(* the exception that leaves it.                                           *)
(***************************************************************************)
EXTENDS Integers, Sequences, FiniteSets, TLC

\* ------------------------------------------------------------------ bounds

\* Messages the consumer delivers in one run of the model.
MaxMessages == 2
\* Polls of consumer.assignment() that may still find no partition.
MaxPolls == 1
\* propose_number: longest input list and largest number in it.
MaxLen == 3
MaxAffil == 2
MaxNum == 3

\* sync_travis_account: polls counted in each phase (the counters saturate,
\* the loops themselves are unbounded)
MaxSyncPolls == 4

\* clean_string_whitespace: the longest title tried
MaxTitle == 4

\* technote-prerender events of one series handled by one loop
MaxSeriesEvents == 3

\* --------------------------------------------------------------- variables

VARIABLES
    py37,            \* the interpreter: TRUE when asyncio.CancelledError is an Exception (Python < 3.8)
    pc,              \* consume_events: the await the task is suspended at
    polls,           \* consume_events: empty partition assignments seen so far
    offset,          \* consume_events: number of messages pulled from the consumer
    topic,           \* message.topic of the current message
    ev,              \* the deserialized event of the current message
    h,               \* the workflow handler called for the current message
    invoked,         \* route_event: the handlers it called for the current message
    inflight,        \* offsets whose handler has been called and has not yet returned or raised
    started,         \* offsets for which a handler was called, in call order
    lastOutcome,     \* how the loop body ended for the most recent message
    failLog,         \* offsets logged with "Failed to handle event message"
    deserLog,        \* offsets logged with "Failed to deserialize an event message"
    stopCalls,       \* number of calls of consumer.stop()
    consumerBuilt,   \* the AIOKafkaConsumer has been constructed
    cancelAt,        \* where the task was suspended when Task.cancel() was called
    cancelOffset,    \* the offset of the current message at that time
    exitFrom,        \* the await at which control left the try block of consume_events
    pendingExc,      \* the exception travelling through the finally block
    taskResult,      \* how the consume_events task ended
    series_numbers,  \* propose_number: the caller's list
    pn_pc,           \* propose_number: "call" before, "returned" or "raised" after
    pn_arg,          \* propose_number: the list as it was passed in
    pn_result,       \* propose_number: the value returned
    ad_db,           \* AuthorDb: the authors and affiliations of authordb.yaml
    ad_id,           \* get_author: the author_id asked for
    ad_pc,           \* get_author: "call" before, "returned" or "raised" after
    ad_result,       \* get_author: the AuthorInfo returned
    config,          \* create_config: the bus protocol and which certificate paths are set
    app_pc,          \* Application.startup: the startup handler that runs next
    httpSession,     \* app["api.lsst.codes/httpSession"]
    sslContext,      \* app["templatebot-aide/kafkaSslContext"]
    producer,        \* the AIOKafkaProducer of init_producer
    startupError,    \* the exception that ended Application.startup
    sy_pc,           \* sync_travis_account: the await the coroutine is suspended at
    sy_prePolls,     \* sync_travis_account: get_current_user calls of the first loop
    sy_postPolls,    \* sync_travis_account: get_current_user calls of the second loop
    sy_syncs,        \* sync_travis_account: POST /user/{id}/sync requests issued
    sy_preIdle,      \* sync_travis_account: the first loop saw is_syncing not True
    sy_postIdle,     \* sync_travis_account: the second loop saw is_syncing not True
    ti_title,        \* clean_string_whitespace: the text passed in
    ti_pc,           \* clean_string_whitespace: "call" before, "returned" after
    ti_result,       \* clean_string_whitespace: the text returned
    ti_event,        \* event["variables"]["title"] of the event the handler was called with
    tr_fn,           \* travisci: the endpoint function called
    tr_org,          \* travisci: its org argument ("None" when not given)
    tr_slug,         \* travisci: its slug argument, <<owner, name>> (<<>> for None)
    tr_pc,           \* travisci: "call" before, "returned" or "raised" after
    tr_result,       \* travisci: the value returned or the exception raised
    se_series,       \* variables.series of the technote events of this run
    se_org,          \* GitHub: the names of the organization's repositories, in listing order
    se_created,      \* repo_name and serial_number of the handlers that got past create_repo
    se_count,        \* technote-prerender events the loop has routed so far
    sh_pc,           \* Application.cleanup: the step that runs next ("none": not traced)
    sh_errors,       \* CleanupContext._on_cleanup: exceptions collected from the teardowns
    sh_log           \* Application.cleanup: what has been released, in order

loopVars == <<pc, polls, offset, topic, ev, h, invoked, inflight, started,
              lastOutcome, failLog, deserLog, stopCalls, consumerBuilt,
              cancelAt, cancelOffset, exitFrom, pendingExc, taskResult>>

pnVars == <<series_numbers, pn_pc, pn_arg, pn_result>>

adVars == <<ad_db, ad_id, ad_pc, ad_result>>

appVars == <<config, app_pc, httpSession, sslContext, producer, startupError>>

syVars == <<sy_pc, sy_prePolls, sy_postPolls, sy_syncs, sy_preIdle, sy_postIdle>>

tiVars == <<ti_title, ti_pc, ti_result, ti_event>>

trVars == <<tr_fn, tr_org, tr_slug, tr_pc, tr_result>>

seVars == <<se_series, se_org, se_created, se_count>>

shVars == <<sh_pc, sh_errors, sh_log>>

auxVars == <<syVars, tiVars, trVars, seVars, shVars>>

vars == <<py37, loopVars, pnVars, adVars, appVars, auxVars>>

\* ------------------------------------------------------ numbering policy

Elems(s) == {s[i] : i \in DOMAIN s}

\* A list that is scanned in the order given.
Sorted_NotSorted(s) == s

\* list.sort(): ascending, duplicates kept.
Sorted(s) == SortSeq(s, LAMBDA a, b : a < b)

\* The value standing for RuntimeError("propose_number should not be in this state.")
PN_RuntimeError == -1

\* A loop with no return at the last element.
RECURSIVE ScanFrom_NoLastReturn(_, _)
ScanFrom_NoLastReturn(nums, i) ==
    IF i > Len(nums) THEN PN_RuntimeError
    ELSE IF i = 1 /\ nums[i] > 1 THEN 1
    ELSE IF i < Len(nums) /\ nums[i + 1] # nums[i] + 1 THEN nums[i] + 1
    ELSE ScanFrom_NoLastReturn(nums, i + 1)

\* The for loop of propose_number over the sorted list; i is the 1-based
\* index of the element the loop is at (Python's i + 1).
RECURSIVE ScanFrom(_, _)
ScanFrom(nums, i) ==
    IF i > Len(nums) THEN PN_RuntimeError
    ELSE IF i = 1 /\ nums[i] > 1 THEN 1
    ELSE IF i = Len(nums) THEN nums[i] + 1
    ELSE IF nums[i + 1] # nums[i] + 1 THEN nums[i] + 1
    ELSE ScanFrom(nums, i + 1)

propose_number(nums) ==
    LET sorted == Sorted(nums)
    IN  IF Len(sorted) = 0 THEN 1 ELSE ScanFrom(sorted, 1)

\* All lists of at most MaxLen numbers in 0..MaxNum.
NumberLists == UNION {[1..n -> 0..MaxNum] : n \in 0..MaxLen}

\* A call propose_number(series_numbers): the list is sorted in place and the
\* scan's value is returned, or RuntimeError is raised.
CallProposeNumber ==
    /\ pn_pc = "call"
    /\ series_numbers' = Sorted(series_numbers)
    /\ pn_result' = propose_number(series_numbers)
    /\ pn_pc' = IF propose_number(series_numbers) = PN_RuntimeError
                THEN "raised" ELSE "returned"
    /\ UNCHANGED <<pn_arg, py37, loopVars, adVars, appVars, auxVars>>

\* ------------------------------------------------------- author registry

Space == " "
Comma == ","

\* str.split(","): the pieces between the commas, in order.
RECURSIVE Split(_)
Split(str) ==
    IF \A k \in DOMAIN str : str[k] # Comma THEN <<str>>
    ELSE LET c == CHOOSE k \in DOMAIN str :
                     str[k] = Comma /\ \A j \in 1..(k - 1) : str[j] # Comma
         IN  <<SubSeq(str, 1, c - 1)>> \o Split(SubSeq(str, c + 1, Len(str)))

\* str.strip() for strings whose only whitespace is the space.
RECURSIVE Strip(_)
Strip(str) ==
    IF str = <<>> THEN str
    ELSE IF Head(str) = Space THEN Strip(Tail(str))
    ELSE IF str[Len(str)] = Space THEN Strip(SubSeq(str, 1, Len(str) - 1))
    ELSE str

\* ", ".join(parts)
RECURSIVE Join(_)
Join(parts) ==
    IF parts = <<>> THEN <<>>
    ELSE IF Len(parts) = 1 THEN parts[1]
    ELSE parts[1] \o <<Comma, Space>> \o Join(Tail(parts))

\* re.sub(" +", " ", text)
RECURSIVE CollapseSpaces(_)
CollapseSpaces(str) ==
    IF Len(str) < 2 THEN str
    ELSE IF str[1] = Space /\ str[2] = Space THEN CollapseSpaces(Tail(str))
    ELSE <<str[1]>> \o CollapseSpaces(Tail(str))

\* Latex(tex).to_text() for text without LaTeX markup: stripped, runs of
\* spaces collapsed.
to_text(tex) == CollapseSpaces(Strip(tex))

AuthorIds == {"sickj", "nobody"}
AffilIds == {"RubinObs", "Unlisted"}

\* Values of the affiliations mapping: a name, then the address after the
\* first comma.
AffilTexts ==
    { <<"R">>,
      <<"R", Space, Space, "O", Comma, Space, "T">>,
      <<"R", Comma, "T", Space, Comma, Space, Space, "U">> }

\* A key the mapping does not hold.
NoEntry == <<"none">>

NoAuthorInfo ==
    [author_id |-> "none", affiliation_id |-> <<>>, affiliation_name |-> <<>>,
     affiliation_address |-> <<>>]

\* authordb.yaml as AuthorDbYaml validates it: an author lists any
\* affiliation ids, whether or not the affiliations mapping holds them.
AuthorDbs ==
    [affiliations : [AffilIds -> AffilTexts \cup {NoEntry}],
     authors : { a \in [AuthorIds -> {NoEntry} \cup
                            UNION {[1..n -> AffilIds] : n \in 0..MaxAffil}] :
                     a["nobody"] = NoEntry }]

\* AuthorInfo.create_from_db: the affiliation fields, from the first listed
\* affiliation.
create_from_db(author_id, affil, db_affils) ==
    IF affil # <<>>
    THEN LET parts == Split(db_affils[affil[1]])
             address == IF Len(parts) > 1
                        THEN Join([k \in 1..(Len(parts) - 1) |-> Strip(parts[k + 1])])
                        ELSE <<>>
         IN  [author_id |-> author_id,
              affiliation_id |-> <<affil[1]>>,
              affiliation_name |-> to_text(parts[1]),
              affiliation_address |-> to_text(address)]
    ELSE [NoAuthorInfo EXCEPT !.author_id = author_id]

\* The value standing for the KeyError of a failed mapping lookup.
AD_KeyError == [NoAuthorInfo EXCEPT !.author_id = "KeyError"]

\* {k: self._data.affiliations[k] for k in db_author.affil}: KeyError when
\* any listed affiliation is not a key of the affiliations mapping.
AffilLookupFails(db, affil) ==
    \E k \in DOMAIN affil : db.affiliations[affil[k]] = NoEntry

\* AuthorDb.get_author
get_author(db, author_id) ==
    IF db.authors[author_id] = NoEntry THEN AD_KeyError
    ELSE IF AffilLookupFails(db, db.authors[author_id]) THEN AD_KeyError
    ELSE create_from_db(author_id, db.authors[author_id], db.affiliations)

CallGetAuthor ==
    /\ ad_pc = "call"
    /\ ad_result' = get_author(ad_db, ad_id)
    /\ ad_pc' = IF get_author(ad_db, ad_id) = AD_KeyError THEN "raised" ELSE "returned"
    /\ UNCHANGED <<ad_db, ad_id, py37, loopVars, pnVars, appVars, auxVars>>

\* ------------------------------------------------------------------ events

PrerenderTopic == "templatebot.prerender"
PostrenderTopic == "templatebot.postrender"
SubscribedTopics == {PrerenderTopic, PostrenderTopic}
RenderreadyTopic == "templatebot.render-ready"
\* Topic names route_event can be handed: the configured ones and another.
TopicNames == SubscribedTopics \cup {RenderreadyTopic, "sqrbot.interaction"}

TECHNOTE_TEMPLATES == {"technote_rst", "technote_latex", "technote_aastex"}
DOCUSHARE_TEMPLATES == {"test_report", "latex_lsstdoc"}
\* Template names the router has no entry for.
OtherTemplates == {"stack_package", "example", "technote_adasstex"}
TemplateNames == TECHNOTE_TEMPLATES \cup DOCUSHARE_TEMPLATES \cup OtherTemplates

KNOWN_TECHNOTE_HANDLES ==
    { <<"D","M","T","N">>, <<"I","T","T","N">>, <<"R","T","N">>,
      <<"P","S","T","N">>, <<"S","I","T","C","O","M","T","N">>,
      <<"S","M","T","N">>, <<"S","Q","R">>, <<"T","S","T","N">> }

Upper == {"D","I","L","M","N","P","Q","R","S","T","C","O"}
Digit == {"0","1","2","3","4","5","6","7","8","9"}

\* A variable of event["variables"]: absent, or present with a string value
\* (a sequence of characters).
Absent == [present |-> FALSE, val |-> <<>>]
Var(s) == [present |-> TRUE, val |-> s]

HandleVars == {Absent, Var(<<"L","D","M","-","1">>), Var(<<"S","Q","R","-","1">>),
               Var(<<"L","D","M","1">>), Var(<<"L","D","M","-","1","x">>)}
SeriesVars == {Absent, Var(<<>>), Var(<<"L","D","M">>), Var(<<"S","Q","R">>)}
SerialVars == {Absent, Var(<<"1">>)}

\* The fields of an event that decide what a handler does.
\*   has_user     slack_username is not None
\*   has_channel  slack_channel is not None
\*   vars_ok      the variables the handler reads unconditionally are present
\*   author_id    technote: variables.author_id is absent, in authordb.yaml, or not in it
\*   has_author   document: "author" in variables
NoEvent ==
    [template_name |-> "none", has_user |-> FALSE, has_channel |-> TRUE,
     vars_ok |-> TRUE,
     author_id |-> "absent", has_author |-> FALSE,
     handle |-> Absent, series |-> Absent, serial_number |-> Absent]


\* re.match(r"(?P<series>[A-Z]+)-(?P<serial_number>[0-9]+)", handle): the
\* pattern is matched at the start of the handle; what follows the digits is
\* not looked at.
RECURSIVE RunLength(_, _)
RunLength(s, class) ==
    IF s # <<>> /\ Head(s) \in class THEN 1 + RunLength(Tail(s), class) ELSE 0

NoMatch == [ok |-> FALSE, series |-> <<>>, serial_number |-> <<>>]

HandleMatch(handle) ==
    LET u == RunLength(handle, Upper)
        rest == SubSeq(handle, u + 2, Len(handle))
        d == RunLength(rest, Digit)
    IN  IF u >= 1 /\ Len(handle) >= u + 1 /\ handle[u + 1] = "-" /\ d >= 1
        THEN [ok |-> TRUE, series |-> SubSeq(handle, 1, u),
              serial_number |-> SubSeq(rest, 1, d)]
        ELSE NoMatch

\* str.lower() on the letters the model uses.
Lowercase ==
    [D |-> "d", I |-> "i", L |-> "l", M |-> "m", N |-> "n", P |-> "p",
     Q |-> "q", R |-> "r", S |-> "s", T |-> "t", C |-> "c", O |-> "o", X |-> "x"]

lower(str) ==
    [i \in DOMAIN str |-> IF str[i] \in DOMAIN Lowercase THEN Lowercase[str[i]] ELSE str[i]]

\* int(m.group("number")): the value of a string of decimal digits.
DigitChars == <<"0","1","2","3","4","5","6","7","8","9">>

DigitValue(c) == CHOOSE k \in 0..9 : DigitChars[k + 1] = c

RECURSIVE ParseInt(_)
ParseInt(digits) ==
    IF digits = <<>> THEN 0
    ELSE 10 * ParseInt(SubSeq(digits, 1, Len(digits) - 1))
             + DigitValue(digits[Len(digits)])

\* f"{new_number:03d}": the decimal digits of a number, zero-padded on the
\* left to a width of three.
RECURSIVE Decimal(_)
Decimal(n) ==
    IF n < 10 THEN <<DigitChars[n + 1]>>
    ELSE Append(Decimal(n \div 10), DigitChars[(n % 10) + 1])

RECURSIVE ZeroPad(_, _)
ZeroPad(str, width) ==
    IF Len(str) >= width THEN str ELSE ZeroPad(<<"0">> \o str, width)

Format03d(n) == ZeroPad(Decimal(n), 3)

\* A pattern that is not anchored at the end of the name.
SeriesPatternMatch_NoEnd(series, name) ==
    LET prefix == series \o <<"-">>
        rest == SubSeq(name, Len(prefix) + 1, Len(name))
        d == RunLength(rest, Digit)
    IN  IF Len(name) > Len(prefix) /\ SubSeq(name, 1, Len(prefix)) = prefix /\ d >= 1
        THEN SubSeq(rest, 1, d)
        ELSE <<>>

\* re.compile(r"^" + series + r"-(?P<number>\d+)$").match(name): the number
\* group of the match, or <<>> when the name does not match.
SeriesPatternMatch(series, name) ==
    LET prefix == series \o <<"-">>
        rest == SubSeq(name, Len(prefix) + 1, Len(name))
        d == RunLength(rest, Digit)
    IN  IF Len(name) > Len(prefix) /\ SubSeq(name, 1, Len(prefix)) = prefix
           /\ d >= 1 /\ d = Len(rest)
        THEN rest
        ELSE <<>>

\* The async for over the organization's repositories: series_numbers, in
\* listing order.
RECURSIVE CollectSeriesNumbers(_, _)
CollectSeriesNumbers(series, repos) ==
    IF repos = <<>> THEN <<>>
    ELSE LET m == SeriesPatternMatch(series, lower(Head(repos)))
             more == CollectSeriesNumbers(series, Tail(repos))
         IN  IF m = <<>> THEN more ELSE <<ParseInt(m)>> \o more

\* Repository listings the organization endpoint may return.
RepoListings ==
    { <<>>,
      << <<"s","q","r","-","0","0","4">>, <<"s","q","r","-","0","0","1">>,
         <<"s","q","r","-","0","0","2">> >>,
      << <<"S","Q","R","-","0","0","1">>, <<"s","q","r","-","0","0","2","x">>,
         <<"x","s","q","r","-","0","0","2">>, <<"l","d","m","-","0","0","2">> >>,
      << <<"s","q","r","-","0","0","1">>, <<"s","q","r","-","0","1">> >> }

\* The events a message on topic t may hold.  A field the handler for that
\* topic and template never reads is left at its value in NoEvent.
Events(t) ==
    { e \in [template_name : TemplateNames, has_user : BOOLEAN,
             has_channel : BOOLEAN, vars_ok : BOOLEAN,
             author_id : {"absent", "known", "unknown"}, has_author : BOOLEAN,
             handle : HandleVars, series : SeriesVars, serial_number : SerialVars] :
        /\ e.has_user => e.has_channel
        /\ (e.author_id # "absent") =>
              (t = PrerenderTopic /\ e.template_name \in TECHNOTE_TEMPLATES /\ e.vars_ok)
        /\ (e.has_author \/ e.handle # Absent) =>
              (t = PrerenderTopic /\ e.template_name \in DOCUSHARE_TEMPLATES /\ e.vars_ok)
        /\ (e.series # Absent \/ e.serial_number # Absent) =>
              (t = PrerenderTopic /\ e.vars_ok)
        \* a technote event with its required variables has a series
        /\ (t = PrerenderTopic /\ e.template_name \in TECHNOTE_TEMPLATES /\ e.vars_ok) =>
              (e.series.present /\ e.series.val # <<>>)
        /\ (e.template_name \notin TECHNOTE_TEMPLATES \cup DOCUSHARE_TEMPLATES) =>
              (e.series \in {Absent, Var(<<"S","Q","R">>)} /\ e.serial_number = Absent) }

\* ------------------------------------------------------- workflow handlers

\* A handler coroutine.
\*   at          the call it is awaiting ("entry": called, not yet run)
\*   status      running, returned or raised
\*   exc         the exception that left it, or the one an except block will re-raise
\*   calls       the provider calls it has made, in order
\*   repoResult  outcome of create_repo; ltdResult: of register_ltd_product
\*   userInfo    outcome of get_user_info
\*   published   render-ready events the producer has acknowledged
\*   repo_name, series, serial_number: the handler's resolved values
\*   org_repos   the repository names the organization listing returned
\*   html_url    repo_info["html_url"] of the repository created
\*   rr          render_ready_message as handed to the serializer
\*   prFailure   the exception a postrender handler's except clause caught
\*   syncResult, activateResult: outcome of sync_travis_account, of activate_travis
NoMessage ==
    [github_repo |-> <<>>, retry_count |-> <<>>,
     series |-> Absent, serial_number |-> Absent]

NoHandler ==
    [name |-> "none", at |-> "idle", status |-> "idle", exc |-> "none",
     calls |-> <<>>, repoResult |-> "none", ltdResult |-> "none",
     userInfo |-> "none", published |-> 0,
     repo_name |-> <<>>, series |-> <<>>, serial_number |-> <<>>,
     org_repos |-> <<>>, html_url |-> <<>>, rr |-> NoMessage,
     prFailure |-> "none", syncResult |-> "none", activateResult |-> "none"]

\* The html_url of the repository resource GitHub returns for a repository
\* created under the name repo_name.
RepoUrl(repo_name) == <<"https://github.com/lsst/">> \o repo_name

\* variables.package_name (stack_package) or variables.name of a generic event.
PackageName == <<"a","f","w">>

Called(name) == [NoHandler EXCEPT !.name = name, !.at = "entry", !.status = "running"]

\* The exception an outcome raises at the await.
ExcOf(o) == IF o = "cancel" THEN "CancelledError" ELSE o

\* isinstance(exc, Exception): what an "except Exception" clause catches.
\* asyncio.CancelledError derives from Exception before Python 3.8 and from
\* BaseException since.
IsException(exc) == exc # "CancelledError" \/ py37

Await(hs, call) == [hs EXCEPT !.at = call, !.calls = Append(@, call)]
Raise(hs, exc) == [hs EXCEPT !.status = "raised", !.exc = exc, !.at = "end"]
Return(hs) == [hs EXCEPT !.status = "returned", !.at = "end"]

\* post_message(text=..., channel=event["slack_channel"], ...) where the code
\* calls it without looking at slack_username: without a channel it raises
\* ValueError before any request is made.
PostMessage(hs, e, call) ==
    IF e.has_channel THEN Await(hs, call) ELSE Raise(hs, "ValueError")

\* The outcomes of the call awaited at a position, cancellation aside.
Outcomes(at, e) ==
    CASE at \in {"create_repo", "list_repos", "pr_create"} ->
            {"ok", "GitHubException", "OtherError"}
      [] at = "pr_get_user" -> {"ok", "GitHubException", "OtherError", "GitError"}
      [] at = "get_user_info" ->
            IF e.has_user THEN {"ok", "no_user", "OtherError"}
            ELSE {"no_user", "OtherError"}
      [] at \in {"pr_sleep", "cred_sleep"} -> {"ok"}
      [] at \in {"sync_travis", "activate_travis"} -> {"ok", "TravisError"}
      [] at \in {"cred_repo_key", "cred_get_user"} -> {"ok", "OtherError", "GitError"}
      [] OTHER -> {"ok", "OtherError"}

\* What ghclient.getiter("/orgs{/org}/repos") yields when the listing
\* succeeds; the other calls leave org_repos as it is.
Listings(hs, o) ==
    IF hs.at = "list_repos" /\ o = "ok" THEN RepoListings ELSE {hs.org_repos}

\* serializer(render_ready_message) and producer.send_and_wait(...), the tail
\* of every prerender handler.
PublishRenderReady(hs, o) ==
    IF o = "ok" THEN Return([hs EXCEPT !.published = @ + 1])
    ELSE Raise(hs, ExcOf(o))

\* The except gidgethub.GitHubException clause of handle_generic_prerender,
\* entered with the exception of create_repo.
GenericOnRepoFailure(hs, e, exc) ==
    IF exc = "GitHubException"
    THEN IF e.has_user
         THEN Await([hs EXCEPT !.exc = exc], "post_apology")
         ELSE Raise(hs, exc)
    ELSE Raise(hs, exc)

\* A message whose github_repo is never set.
RenderReadyGeneric_NoRepo(hs, e) ==
    [github_repo |-> <<>>, retry_count |-> <<0>>,
     series |-> e.series, serial_number |-> e.serial_number]

\* render_ready_message of handle_generic_prerender: deepcopy(event) with
\* github_repo and retry_count set.
RenderReadyGeneric(hs, e) ==
    [github_repo |-> hs.html_url, retry_count |-> <<0>>,
     series |-> e.series, serial_number |-> e.serial_number]

handle_generic_prerender(hs, e, o) ==
    CASE hs.at = "entry" ->
            IF ~e.vars_ok THEN Raise(hs, "KeyError")
            ELSE Await([hs EXCEPT !.repo_name = PackageName], "create_repo")
      [] hs.at = "create_repo" ->
            LET r == [hs EXCEPT !.repoResult = ExcOf(o)]
            IN  IF o = "ok"
                THEN LET c == [r EXCEPT !.html_url = RepoUrl(r.repo_name)]
                     IN  Await([c EXCEPT !.rr = RenderReadyGeneric(c, e)], "publish")
                ELSE GenericOnRepoFailure(r, e, ExcOf(o))
      [] hs.at = "post_apology" ->
            \* the second message's text reads repo_info['html_url'], and
            \* repo_info was never bound: UnboundLocalError
            IF o = "ok" THEN Raise(hs, "UnboundLocalError")
            ELSE Raise(hs, ExcOf(o))
      [] hs.at = "publish" -> PublishRenderReady(hs, o)

\* A clause that notifies nobody and carries on with the registration instead
\* of re-raising.
OnRepoFailure_Continue(hs, e, exc) == Await(hs, "register_ltd")

\* The except gidgethub.GitHubException clause of the technote and document
\* prerender handlers.
OnRepoFailure(hs, e, exc) ==
    IF exc = "GitHubException"
    THEN IF e.has_user
         THEN Await([hs EXCEPT !.exc = exc], "post_apology")
         ELSE Raise(hs, exc)
    ELSE Raise(hs, exc)

\* A handler that carries on to the registration whatever create_repo did.
AfterCreateRepo_IgnoreFailure(hs, e, o) ==
    Await([hs EXCEPT !.repoResult = ExcOf(o), !.html_url = RepoUrl(hs.repo_name)],
          "register_ltd")

\* After create_repo in the technote and document prerender handlers.
AfterCreateRepo(hs, e, o) ==
    LET r == [hs EXCEPT !.repoResult = ExcOf(o)]
    IN  IF o = "ok"
        THEN Await([r EXCEPT !.html_url = RepoUrl(r.repo_name)], "register_ltd")
        ELSE OnRepoFailure(r, e, ExcOf(o))

\* The except Exception clause around register_ltd_product and the message
\* that follows it in the try block.
OnLtdFailure(hs, e, exc) ==
    IF IsException(exc)
    THEN IF e.has_user THEN Await(hs, "post_docs_failed")
         ELSE Await(hs, "get_user_info")
    ELSE Raise(hs, exc)

\* After register_ltd_product.
AfterRegisterLtd(hs, e, o) ==
    LET r == [hs EXCEPT !.ltdResult = ExcOf(o)]
    IN  IF o = "ok"
        THEN IF e.has_user THEN Await(r, "post_docs_url")
             ELSE Await(r, "get_user_info")
        ELSE OnLtdFailure(r, e, ExcOf(o))

\* A message that carries the lower-cased series used for the repository name.
RenderReadyTechnote_LoweredSeries(hs, e) ==
    [github_repo |-> hs.html_url, retry_count |-> <<0>>,
     series |-> Var(hs.series), serial_number |-> Var(hs.serial_number)]

\* render_ready_message of handle_technote_prerender: deepcopy(event) with
\* github_repo, variables.serial_number and retry_count set.
RenderReadyTechnote(hs, e) ==
    [github_repo |-> hs.html_url, retry_count |-> <<0>>,
     series |-> e.series, serial_number |-> Var(hs.serial_number)]

\* From the organization's listing to the repository name: the series'
\* numbers, propose_number, the serial number and the name.
SelectRepoName(hs, e) ==
    LET series == lower(e.series.val)
        numbers == CollectSeriesNumbers(series, hs.org_repos)
        new_number == propose_number(numbers)
        serial == Format03d(new_number)
    IN  IF new_number = PN_RuntimeError THEN Raise(hs, "RuntimeError")
        ELSE Await([hs EXCEPT !.series = series, !.serial_number = serial,
                              !.repo_name = series \o <<"-">> \o serial],
                   "create_repo")

handle_technote_prerender(hs, e, o) ==
    CASE hs.at = "entry" ->
            IF ~e.vars_ok THEN Raise(hs, "KeyError")
            ELSE IF e.author_id # "absent" THEN Await(hs, "authordb_download")
            ELSE Await(hs, "list_repos")
      [] hs.at = "authordb_download" ->
            IF o # "ok" THEN Raise(hs, ExcOf(o))
            ELSE IF e.author_id = "known" THEN Await(hs, "list_repos")
            ELSE PostMessage([hs EXCEPT !.exc = "KeyError"], e, "post_author_help")
      [] hs.at = "post_author_help" ->
            IF o = "ok" THEN Await(hs, "print_input_author")
            ELSE Raise(hs, ExcOf(o))
      [] hs.at = "print_input_author" ->
            IF o = "ok" THEN Raise(hs, hs.exc) ELSE Raise(hs, ExcOf(o))
      [] hs.at = "list_repos" ->
            IF o = "ok" THEN SelectRepoName(hs, e)
            ELSE Raise(hs, ExcOf(o))
      [] hs.at = "create_repo" -> AfterCreateRepo(hs, e, o)
      [] hs.at = "post_apology" ->
            IF o = "ok" THEN Await(hs, "post_repo_identity")
            ELSE Raise(hs, ExcOf(o))
      [] hs.at = "post_repo_identity" ->
            IF o = "ok" THEN Await(hs, "print_input_repo")
            ELSE Raise(hs, ExcOf(o))
      [] hs.at = "print_input_repo" ->
            IF o = "ok" THEN Raise(hs, hs.exc) ELSE Raise(hs, ExcOf(o))
      [] hs.at = "register_ltd" -> AfterRegisterLtd(hs, e, o)
      [] hs.at = "post_docs_url" ->
            IF o = "ok" THEN Await(hs, "get_user_info")
            ELSE OnLtdFailure(hs, e, ExcOf(o))
      [] hs.at = "post_docs_failed" ->
            IF o = "ok" THEN Await(hs, "print_input_ltd")
            ELSE Raise(hs, ExcOf(o))
      [] hs.at = "print_input_ltd" ->
            IF o = "ok" THEN Await(hs, "get_user_info")
            ELSE Raise(hs, ExcOf(o))
      [] hs.at = "get_user_info" ->
            \* user_info["user"]["real_name"] is read unconditionally
            IF o = "ok"
            THEN Await([hs EXCEPT !.userInfo = "ok", !.rr = RenderReadyTechnote(hs, e)],
                       "publish")
            ELSE IF o = "no_user" THEN Raise([hs EXCEPT !.userInfo = "no_user"], "KeyError")
            ELSE Raise(hs, ExcOf(o))
      [] hs.at = "publish" -> PublishRenderReady(hs, o)

\* A guard that lets every series through.
IsKnownTechnote_Never(series) == FALSE

\* "if series in KNOWN_TECHNOTE_HANDLES": the document is really a technote.
IsKnownTechnote(series) == series \in KNOWN_TECHNOTE_HANDLES

\* A resolution that builds the handle from series and serial_number even
\* when variables.handle is there.
ResolveHandle_PreferSeries(e) ==
    LET both == /\ e.series.present /\ e.series.val # <<>>
                /\ e.serial_number.present /\ e.serial_number.val # <<>>
    IN  [handle |-> IF both THEN Var(e.series.val \o <<"-">> \o e.serial_number.val)
                    ELSE e.handle,
         series |-> IF e.series.present THEN e.series.val ELSE <<>>,
         serial_number |-> IF e.serial_number.present THEN e.serial_number.val ELSE <<>>]

\* handle, series and serial_number as handle_document_prerender resolves
\* them from the variables; handle.present is FALSE when it stays None.
ResolveHandle(e) ==
    LET hm == IF e.handle.present THEN HandleMatch(e.handle.val) ELSE NoMatch
        series == IF e.series.present /\ e.series.val # <<>> THEN e.series.val
                  ELSE IF hm.ok THEN hm.series ELSE <<>>
        serial == IF e.serial_number.present /\ e.serial_number.val # <<>>
                  THEN e.serial_number.val
                  ELSE IF hm.ok THEN hm.serial_number ELSE <<>>
        handle == IF e.handle.present THEN e.handle
                  ELSE IF series # <<>> /\ serial # <<>>
                       THEN Var(series \o <<"-">> \o serial)
                       ELSE Absent
    IN  [handle |-> handle, series |-> series, serial_number |-> serial]

\* render_ready_message of handle_document_prerender: deepcopy(event) with
\* variables.series and variables.serial_number filled in when absent or
\* empty, and github_repo and retry_count set.
RenderReadyDocument(hs, e) ==
    [github_repo |-> hs.html_url, retry_count |-> <<0>>,
     series |-> IF ~e.series.present \/ e.series.val = <<>>
                THEN Var(hs.series) ELSE e.series,
     serial_number |-> IF ~e.serial_number.present \/ e.serial_number.val = <<>>
                       THEN Var(hs.serial_number) ELSE e.serial_number]

handle_document_prerender(hs, e, o) ==
    CASE hs.at = "entry" ->
            IF ~e.vars_ok THEN Raise(hs, "KeyError")
            ELSE LET r == ResolveHandle(e)
                     hr == [hs EXCEPT !.series = r.series,
                                      !.serial_number = r.serial_number,
                                      !.repo_name = r.handle.val]
                 IN  IF ~r.handle.present
                     THEN PostMessage([hr EXCEPT !.exc = "RuntimeError"], e, "post_no_handle")
                     ELSE IF IsKnownTechnote(r.series)
                     THEN PostMessage([hr EXCEPT !.exc = "RuntimeError"], e, "post_is_technote")
                     ELSE Await(hr, "create_repo")
      [] hs.at \in {"post_no_handle", "post_is_technote"} ->
            IF o = "ok" THEN Raise(hs, hs.exc) ELSE Raise(hs, ExcOf(o))
      [] hs.at = "create_repo" -> AfterCreateRepo(hs, e, o)
      [] hs.at = "post_apology" ->
            IF o = "ok" THEN Await(hs, "post_repo_identity")
            ELSE Raise(hs, ExcOf(o))
      [] hs.at = "post_repo_identity" ->
            IF o = "ok" THEN Raise(hs, hs.exc) ELSE Raise(hs, ExcOf(o))
      [] hs.at = "register_ltd" -> AfterRegisterLtd(hs, e, o)
      [] hs.at = "post_docs_url" ->
            IF o = "ok" THEN Await(hs, "get_user_info")
            ELSE OnLtdFailure(hs, e, ExcOf(o))
      [] hs.at = "post_docs_failed" ->
            IF o = "ok" THEN Await(hs, "get_user_info")
            ELSE Raise(hs, ExcOf(o))
      [] hs.at = "get_user_info" ->
            \* user_info["user"]["real_name"] is read only if "author" is not a variable
            IF o = "ok"
            THEN Await([hs EXCEPT !.userInfo = "ok", !.rr = RenderReadyDocument(hs, e)],
                       "publish")
            ELSE IF o = "no_user"
            THEN IF e.has_author
                 THEN Await([hs EXCEPT !.userInfo = "no_user",
                                       !.rr = RenderReadyDocument(hs, e)], "publish")
                 ELSE Raise([hs EXCEPT !.userInfo = "no_user"], "KeyError")
            ELSE Raise(hs, ExcOf(o))
      [] hs.at = "publish" -> PublishRenderReady(hs, o)

\* Template names for which a postrender handler opens the lsst-texmf
\* submodule pull request.
TechnoteLatexTemplates ==
    {"technote_latex", "technote_aastex", "technote_adasstex", "technote_spietex"}
DocumentLatexTemplates == {"test_report", "latex_lsstdoc"}

\* A clause that re-raises what it caught.
OnPrFailure_Reraise(hs, e, exc) == Raise([hs EXCEPT !.prFailure = exc], exc)

\* The except Exception clause of a postrender handler.
OnPrFailure(hs, e, exc) ==
    IF IsException(exc)
    THEN LET c == [hs EXCEPT !.prFailure = exc]
         IN  IF e.has_user THEN Await(c, "post_pr_failed") ELSE Return(c)
    ELSE Raise(hs, exc)

\* A postrender handler for the templates in latex: pr_latex_submodules
\* (authenticated-user lookup, the git work, the grace period, the pull
\* request) and the messages to the user.
Postrender(hs, e, o, latex) ==
    CASE hs.at = "entry" ->
            IF e.template_name \notin latex THEN Return(hs)
            ELSE IF ~e.vars_ok THEN Raise(hs, "KeyError")
            ELSE Await(hs, "pr_get_user")
      [] hs.at = "pr_get_user" ->
            IF o = "ok" THEN Await(hs, "pr_sleep")
            ELSE IF o = "GitError" THEN OnPrFailure(hs, e, "OtherError")
            ELSE OnPrFailure(hs, e, ExcOf(o))
      [] hs.at = "pr_sleep" ->
            IF o = "ok" THEN Await(hs, "pr_create")
            ELSE OnPrFailure(hs, e, ExcOf(o))
      [] hs.at = "pr_create" ->
            IF o = "ok"
            THEN IF e.has_user THEN Await(hs, "post_pr_done") ELSE Return(hs)
            ELSE OnPrFailure(hs, e, ExcOf(o))
      [] hs.at = "post_pr_done" ->
            IF o = "ok" THEN Return(hs) ELSE OnPrFailure(hs, e, ExcOf(o))
      [] hs.at = "post_pr_failed" ->
            IF o = "ok" THEN Return(hs) ELSE Raise(hs, ExcOf(o))

handle_technote_postrender(hs, e, o) == Postrender(hs, e, o, TechnoteLatexTemplates)

handle_document_postrender(hs, e, o) == Postrender(hs, e, o, DocumentLatexTemplates)

\* --- handle_technote_postrender of the release that activates Travis CI

\* The except Exception clause around register_ltd_product and its message.
TravisOnLtdFailure(hs, e, exc) ==
    IF IsException(exc)
    THEN IF e.has_user THEN Await(hs, "post_docs_failed")
         ELSE Await(hs, "sync_travis")
    ELSE Raise(hs, exc)

\* A clause that reports the failed sync and carries on with the activation.
OnSyncFailure_Swallow(hs, e, exc) ==
    IF e.has_user THEN Await([hs EXCEPT !.exc = exc], "post_sync_failed")
    ELSE Await(hs, "activate_travis")

\* The except Exception clause around sync_travis_account: message, raise.
OnSyncFailure(hs, e, exc) ==
    IF IsException(exc) /\ e.has_user
    THEN Await([hs EXCEPT !.exc = exc], "post_sync_failed")
    ELSE Raise(hs, exc)

\* The except Exception clause around activate_travis and the message that
\* follows it in the try block: message, raise.
OnActivateFailure(hs, e, exc) ==
    IF IsException(exc) /\ e.has_user
    THEN Await([hs EXCEPT !.exc = exc], "post_activate_failed")
    ELSE Raise(hs, exc)

\* The except Exception clause around pr_ltd_credentials_for_travis and the
\* message that follows it in the try block: message, no raise.
OnCredFailure(hs, e, exc) ==
    IF IsException(exc)
    THEN LET c == [hs EXCEPT !.prFailure = exc]
         IN  IF e.has_user THEN Await(c, "post_cred_failed") ELSE Return(c)
    ELSE Raise(hs, exc)

\* After Travis is activated: the credentials pull request of a technote_rst
\* repository.  ltd_product is unbound when register_ltd_product failed.
AfterActivate(hs, e) ==
    IF e.template_name # "technote_rst" THEN Return(hs)
    ELSE IF hs.ltdResult # "ok" THEN OnCredFailure(hs, e, "UnboundLocalError")
    ELSE Await(hs, "cred_repo_key")

\* pr_ltd_credentials_for_travis awaits the repository's Travis key, the
\* authenticated GitHub user, a pause and the pull request; GitError stands
\* for a failure of the git and YAML work around the first two.
handle_technote_postrender_travis(hs, e, o) ==
    CASE hs.at = "entry" ->
            IF ~e.vars_ok THEN Raise(hs, "KeyError")
            ELSE Await(hs, "register_ltd")
      [] hs.at = "register_ltd" ->
            LET r == [hs EXCEPT !.ltdResult = ExcOf(o)]
            IN  IF o = "ok"
                THEN IF e.has_user THEN Await(r, "post_docs_url")
                     ELSE Await(r, "sync_travis")
                ELSE TravisOnLtdFailure(r, e, ExcOf(o))
      [] hs.at = "post_docs_url" ->
            IF o = "ok" THEN Await(hs, "sync_travis")
            ELSE TravisOnLtdFailure(hs, e, ExcOf(o))
      [] hs.at = "post_docs_failed" ->
            IF o = "ok" THEN Await(hs, "sync_travis") ELSE Raise(hs, ExcOf(o))
      [] hs.at = "sync_travis" ->
            LET r == [hs EXCEPT !.syncResult = ExcOf(o)]
            IN  IF o = "ok" THEN Await(r, "activate_travis")
                ELSE OnSyncFailure(r, e, ExcOf(o))
      [] hs.at = "post_sync_failed" ->
            IF o = "ok" THEN Raise(hs, hs.exc) ELSE Raise(hs, ExcOf(o))
      [] hs.at = "activate_travis" ->
            LET r == [hs EXCEPT !.activateResult = ExcOf(o)]
            IN  IF o = "ok"
                THEN IF e.has_user THEN Await(r, "post_activated")
                     ELSE AfterActivate(r, e)
                ELSE OnActivateFailure(r, e, ExcOf(o))
      [] hs.at = "post_activated" ->
            IF o = "ok" THEN AfterActivate(hs, e)
            ELSE OnActivateFailure(hs, e, ExcOf(o))
      [] hs.at = "post_activate_failed" ->
            IF o = "ok" THEN Raise(hs, hs.exc) ELSE Raise(hs, ExcOf(o))
      [] hs.at = "cred_repo_key" ->
            IF o = "ok" THEN Await(hs, "cred_get_user")
            ELSE OnCredFailure(hs, e, ExcOf(o))
      [] hs.at = "cred_get_user" ->
            IF o = "ok" THEN Await(hs, "cred_sleep")
            ELSE OnCredFailure(hs, e, ExcOf(o))
      [] hs.at = "cred_sleep" ->
            IF o = "ok" THEN Await(hs, "cred_create_pr")
            ELSE OnCredFailure(hs, e, ExcOf(o))
      [] hs.at = "cred_create_pr" ->
            IF o = "ok"
            THEN IF e.has_user THEN Await(hs, "post_cred_done") ELSE Return(hs)
            ELSE OnCredFailure(hs, e, ExcOf(o))
      [] hs.at = "post_cred_done" ->
            IF o = "ok" THEN Return(hs) ELSE OnCredFailure(hs, e, ExcOf(o))
      [] hs.at = "post_cred_failed" ->
            IF o = "ok" THEN Return(hs) ELSE Raise(hs, ExcOf(o))

\* One step of the handler hs.name.
Handler(hs, e, o) ==
    CASE hs.name = "generic_prerender" -> handle_generic_prerender(hs, e, o)
      [] hs.name = "technote_prerender" -> handle_technote_prerender(hs, e, o)
      [] hs.name = "document_prerender" -> handle_document_prerender(hs, e, o)
      [] hs.name = "technote_postrender" -> handle_technote_postrender(hs, e, o)
      [] hs.name = "technote_postrender_travis" ->
            handle_technote_postrender_travis(hs, e, o)
      [] hs.name = "document_postrender" -> handle_document_postrender(hs, e, o)

\* ------------------------------------------------------------------ router

\* A router without the generic fallback on the prerender topic.
route_event_NoFallback(t, e) ==
    IF t = PrerenderTopic
    THEN IF e.template_name \in TECHNOTE_TEMPLATES THEN <<"technote_prerender">>
         ELSE IF e.template_name \in DOCUSHARE_TEMPLATES THEN <<"document_prerender">>
         ELSE <<>>
    ELSE IF t = PostrenderTopic
    THEN IF e.template_name \in TECHNOTE_TEMPLATES THEN <<"technote_postrender">>
         ELSE IF e.template_name \in DOCUSHARE_TEMPLATES THEN <<"document_postrender">>
         ELSE <<>>
    ELSE <<>>

\* A router whose postrender branch ends in an else instead of an elif.
route_event_PostrenderElse(t, e) ==
    IF t = PrerenderTopic
    THEN IF e.template_name \in TECHNOTE_TEMPLATES THEN <<"technote_prerender">>
         ELSE IF e.template_name \in DOCUSHARE_TEMPLATES THEN <<"document_prerender">>
         ELSE <<"generic_prerender">>
    ELSE IF t = PostrenderTopic
    THEN IF e.template_name \in TECHNOTE_TEMPLATES THEN <<"technote_postrender">>
         ELSE <<"document_postrender">>
    ELSE <<>>

\* A router that takes every topic but the prerender topic for the
\* postrender topic.
route_event_ElsePostrender(t, e) ==
    IF t = PrerenderTopic
    THEN IF e.template_name \in TECHNOTE_TEMPLATES THEN <<"technote_prerender">>
         ELSE IF e.template_name \in DOCUSHARE_TEMPLATES THEN <<"document_prerender">>
         ELSE <<"generic_prerender">>
    ELSE IF e.template_name \in TECHNOTE_TEMPLATES THEN <<"technote_postrender">>
    ELSE IF e.template_name \in DOCUSHARE_TEMPLATES THEN <<"document_postrender">>
    ELSE <<>>

\* route_event: the handlers it calls for an event on a topic, in order.
route_event(t, e) ==
    IF t = PrerenderTopic
    THEN IF e.template_name \in TECHNOTE_TEMPLATES THEN <<"technote_prerender">>
         ELSE IF e.template_name \in DOCUSHARE_TEMPLATES THEN <<"document_prerender">>
         ELSE <<"generic_prerender">>
    ELSE IF t = PostrenderTopic
    THEN IF e.template_name \in TECHNOTE_TEMPLATES THEN <<"technote_postrender">>
         ELSE IF e.template_name \in DOCUSHARE_TEMPLATES THEN <<"document_postrender">>
         ELSE <<>>
    ELSE <<>>


\* ------------------------------------------------------- consumption loop

\* A loop without the try/except around deserializer.deserialize.
OnDeserializeRaise_Leave(exc) == "leave"

\* What the "except Exception" clause around deserializer.deserialize does
\* with an exception raised at that await: log it and continue with the next
\* message, or let it leave the loop.
OnDeserializeRaise(exc) == IF IsException(exc) THEN "log_and_continue" ELSE "leave"

\* A loop without the try/except around route_event.
OnRouteEventRaise_Leave(exc) == "leave"

\* What the "except Exception" clause around route_event does with an
\* exception that leaves the handler.
OnRouteEventRaise(exc) == IF IsException(exc) THEN "log_and_continue" ELSE "leave"

\* A loop that schedules route_event instead of awaiting it, and so pulls
\* the next message while a handler is in flight.
CanPull_NoAwait == pc \in {"waiting", "routing"}

\* The async for loop asks the consumer for the next message only from its
\* own await of consumer.__anext__().
CanPull == pc = "waiting"

\* Task.cancel() called while the task is suspended at pc: CancelledError is
\* thrown at that await.  stop_events_listener is its only caller and calls
\* it once; where Application.cleanup is traced, the call has been made when
\* sh_pc is "awaiting_task".
NotCancelled == cancelAt = "none" /\ sh_pc \in {"none", "awaiting_task"}

MarkCancel(o) ==
    IF o = "cancel"
    THEN cancelAt' = pc /\ cancelOffset' = offset
    ELSE UNCHANGED <<cancelAt, cancelOffset>>

\* consumer.stop() called in the "except asyncio.CancelledError" clause
\* instead of the finally block.
LeaveTry_StopOnCancelOnly(exc) ==
    /\ pc' = "stopping"
    /\ exitFrom' = pc
    /\ pendingExc' = IF exc = "CancelledError" THEN "none" ELSE exc
    /\ stopCalls' = IF exc = "CancelledError" THEN stopCalls + 1 ELSE stopCalls

\* Control leaves the try block with exc: "except asyncio.CancelledError"
\* absorbs a cancellation, and the finally block calls consumer.stop().
LeaveTry(exc) ==
    /\ pc' = "stopping"
    /\ exitFrom' = pc
    /\ pendingExc' = IF exc = "CancelledError" THEN "none" ELSE exc
    /\ stopCalls' = stopCalls + 1

\* The loop body from the point where route_event's handler, in state h2,
\* has run up to its next await, its return or its raise; infl holds the
\* handlers in flight before that.
AfterHandler(h2, infl) ==
    /\ h' = h2
    /\ IF h2.status = "running"
       THEN /\ pc' = "routing"
            /\ inflight' = infl
            /\ UNCHANGED <<lastOutcome, failLog, exitFrom, pendingExc, stopCalls>>
       ELSE /\ inflight' = infl \ {offset}
            /\ IF h2.status = "returned"
               THEN /\ pc' = "waiting"
                    /\ lastOutcome' = "handled"
                    /\ UNCHANGED <<failLog, exitFrom, pendingExc, stopCalls>>
               ELSE IF OnRouteEventRaise(h2.exc) = "log_and_continue"
               THEN /\ pc' = "waiting"
                    /\ lastOutcome' = "handler_failed"
                    /\ failLog' = failLog \cup {offset}
                    /\ UNCHANGED <<exitFrom, pendingExc, stopCalls>>
               ELSE /\ LeaveTry(h2.exc)
                    /\ lastOutcome' = "left"
                    /\ UNCHANGED failLog

\* The event loop runs the task for the first time: consume_events builds the
\* consumer and awaits consumer.start().
TaskStart ==
    /\ pc = "init"
    /\ pc' = "starting"
    /\ consumerBuilt' = TRUE
    /\ UNCHANGED <<py37, polls, offset, topic, ev, h, invoked, inflight, started,
                   lastOutcome, failLog, deserLog, stopCalls, cancelAt,
                   cancelOffset, exitFrom, pendingExc, taskResult, pnVars, adVars, appVars, auxVars>>

\* stop_events_listener cancels the task before it ever ran: the coroutine
\* body is never entered.
CancelBeforeStart ==
    /\ pc = "init"
    /\ pc' = "done"
    /\ cancelAt' = "init"
    /\ cancelOffset' = offset
    /\ taskResult' = "cancelled"
    /\ UNCHANGED <<py37, polls, offset, topic, ev, h, invoked, inflight, started,
                   lastOutcome, failLog, deserLog, stopCalls, consumerBuilt,
                   exitFrom, pendingExc, pnVars, adVars, appVars, auxVars>>

\* await consumer.start(), then subscribe and the first consumer.assignment().
ConsumerStart ==
    /\ pc = "starting"
    /\ \E o \in {"ok", "KafkaError"} \cup {c \in {"cancel"} : NotCancelled} :
          /\ MarkCancel(o)
          /\ IF o = "ok"
             THEN /\ \E assigned \in BOOLEAN :
                        pc' = IF assigned THEN "waiting" ELSE "assigning"
                  /\ UNCHANGED <<exitFrom, pendingExc, stopCalls>>
             ELSE LeaveTry(ExcOf(o))
    /\ UNCHANGED <<py37, polls, offset, topic, ev, h, invoked, inflight, started,
                   lastOutcome, failLog, deserLog, consumerBuilt, taskResult,
                   pnVars, adVars, appVars, auxVars>>

\* await asyncio.sleep(1.0) in the wait for a partition assignment, and the
\* consumer.assignment() after it.
AssignmentPoll ==
    /\ pc = "assigning"
    /\ \E o \in {"ok"} \cup {c \in {"cancel"} : NotCancelled} :
          /\ MarkCancel(o)
          /\ IF o = "ok"
             THEN /\ \E assigned \in BOOLEAN :
                        IF assigned
                        THEN pc' = "waiting" /\ polls' = polls
                        ELSE polls < MaxPolls /\ pc' = "assigning" /\ polls' = polls + 1
                  /\ UNCHANGED <<exitFrom, pendingExc, stopCalls>>
             ELSE LeaveTry(ExcOf(o)) /\ polls' = polls
    /\ UNCHANGED <<py37, offset, topic, ev, h, invoked, inflight, started,
                   lastOutcome, failLog, deserLog, consumerBuilt, taskResult,
                   pnVars, adVars, appVars, auxVars>>

\* The consumer hands the loop its next message; the loop body awaits
\* deserializer.deserialize(message.value).
Deliver ==
    /\ CanPull
    /\ offset < MaxMessages
    /\ offset' = offset + 1
    /\ \E t \in SubscribedTopics : topic' = t
    /\ pc' = "deserializing"
    /\ ev' = NoEvent
    /\ h' = NoHandler
    /\ invoked' = <<>>
    /\ UNCHANGED <<py37, polls, inflight, started, lastOutcome, failLog, deserLog,
                   stopCalls, consumerBuilt, cancelAt, cancelOffset, exitFrom,
                   pendingExc, taskResult, pnVars, adVars, appVars, auxVars>>

\* The await of the next message ends with an exception: a consumer error, or
\* the cancellation of the task.
WaitRaises ==
    /\ pc = "waiting"
    /\ \E o \in {"KafkaError"} \cup {c \in {"cancel"} : NotCancelled} :
          /\ MarkCancel(o)
          /\ LeaveTry(ExcOf(o))
    /\ UNCHANGED <<py37, polls, offset, topic, ev, h, invoked, inflight, started,
                   lastOutcome, failLog, deserLog, consumerBuilt, taskResult,
                   pnVars, adVars, appVars, auxVars>>

\* deserializer.deserialize raises.
DeserializeRaises ==
    /\ pc = "deserializing"
    /\ \E o \in {"OtherError"} \cup {c \in {"cancel"} : NotCancelled} :
          /\ MarkCancel(o)
          /\ IF OnDeserializeRaise(ExcOf(o)) = "log_and_continue"
             THEN /\ deserLog' = deserLog \cup {offset}
                  /\ lastOutcome' = "deser_failed"
                  /\ pc' = "waiting"
                  /\ UNCHANGED <<exitFrom, pendingExc, stopCalls>>
             ELSE /\ LeaveTry(ExcOf(o))
                  /\ lastOutcome' = "left"
                  /\ UNCHANGED deserLog
    /\ UNCHANGED <<py37, polls, offset, topic, ev, h, invoked, inflight, started,
                   failLog, consumerBuilt, taskResult, pnVars, adVars, appVars, auxVars>>

\* deserializer.deserialize returns the event; route_event is called with it
\* and calls the handlers it selects, which run up to their first await.
DeserializeAndRoute ==
    /\ pc = "deserializing"
    /\ \E e \in Events(topic) :
          /\ ev' = e
          /\ invoked' = route_event(topic, e)
          /\ IF route_event(topic, e) = <<>>
             THEN /\ pc' = "waiting"
                  /\ lastOutcome' = "handled"
                  /\ UNCHANGED <<h, inflight, started, failLog, exitFrom,
                                 pendingExc, stopCalls>>
             ELSE /\ started' = Append(started, offset)
                  /\ AfterHandler(Handler(Called(route_event(topic, e)[1]), e, "enter"),
                                  inflight \cup {offset})
    /\ UNCHANGED <<py37, polls, offset, topic, deserLog, consumerBuilt, cancelAt,
                   cancelOffset, taskResult, pnVars, adVars, appVars, auxVars>>

\* route_event of the release whose technote postrender handler activates
\* Travis CI, called with a technote event on the postrender topic.
RouteTechnotePostrenderTravis ==
    /\ pc = "deserializing"
    /\ topic = PostrenderTopic
    /\ \E e \in {x \in Events(topic) : x.template_name \in TECHNOTE_TEMPLATES} :
          /\ ev' = e
          /\ invoked' = route_event(topic, e)
          /\ started' = Append(started, offset)
          /\ AfterHandler(Handler(Called("technote_postrender_travis"), e, "enter"),
                          inflight \cup {offset})
    /\ UNCHANGED <<py37, polls, offset, topic, deserLog, consumerBuilt, cancelAt,
                   cancelOffset, taskResult, pnVars, adVars, appVars, auxVars>>

\* The call the handler in flight is awaiting ends, with a result, an
\* exception or the cancellation of the task, and the handler runs on.
HandlerStep ==
    /\ pc = "routing"
    /\ \E o \in Outcomes(h.at, ev) \cup {c \in {"cancel"} : NotCancelled} :
          /\ MarkCancel(o)
          /\ \E repos \in Listings(h, o) :
                AfterHandler(Handler([h EXCEPT !.org_repos = repos], ev, o), inflight)
    /\ UNCHANGED <<py37, polls, offset, topic, ev, invoked, started, deserLog,
                   consumerBuilt, taskResult, pnVars, adVars, appVars, auxVars>>

\* await consumer.stop() in the finally block ends, and with it the task.
ConsumerStop ==
    /\ pc = "stopping"
    /\ \E o \in {"ok", "KafkaError"} \cup {c \in {"cancel"} : NotCancelled} :
          /\ MarkCancel(o)
          /\ taskResult' = IF o = "cancel" THEN "cancelled"
                           ELSE IF o = "ok" /\ pendingExc = "none" THEN "returned"
                           ELSE "raised"
    /\ pc' = "done"
    /\ UNCHANGED <<py37, polls, offset, topic, ev, h, invoked, inflight, started,
                   lastOutcome, failLog, deserLog, stopCalls, consumerBuilt,
                   exitFrom, pendingExc, pnVars, adVars, appVars, auxVars>>

\* ------------------------------------------- technotes of one series

\* GitHub compares repository names without regard to case.
NameTaken(org, name) == \E k \in DOMAIN org : lower(org[k]) = lower(name)

\* ghclient.post("/orgs{/org_name}/repos") in create_repo: GitHub refuses,
\* with a GitHubException, a name the organization already has.
CreateRepoOutcomes(org, name, e) ==
    IF NameTaken(org, name) THEN Outcomes("create_repo", e) \ {"ok"}
    ELSE Outcomes("create_repo", e)

\* The technote-prerender events of the series.
SeriesEvents ==
    {e \in Events(PrerenderTopic) :
        /\ e.template_name = "technote_rst"
        /\ e.vars_ok
        /\ e.author_id = "absent"
        /\ e.series = Var(se_series)
        /\ e.serial_number = Absent}

\* One pass of the loop body of consume_events, up to the first await of
\* handle_technote_prerender; the loop takes the next message only when
\* route_event has returned or raised.
SeriesRoute ==
    /\ h.status # "running"
    /\ se_count < MaxSeriesEvents
    /\ se_count' = se_count + 1
    /\ \E e \in SeriesEvents :
          /\ ev' = e
          /\ h' = Handler(Called("technote_prerender"), e, "enter")
    /\ UNCHANGED <<se_series, se_org, se_created>>
    /\ UNCHANGED <<py37, pc, polls, offset, topic, invoked, inflight, started,
                   lastOutcome, failLog, deserLog, stopCalls, consumerBuilt,
                   cancelAt, cancelOffset, exitFrom, pendingExc, taskResult,
                   pnVars, adVars, appVars, syVars, tiVars, trVars, shVars>>

\* The call the handler awaits ends. The listing is the organization's
\* repositories at that time; a repository created is in it from then on.
SeriesStep ==
    /\ h.status = "running"
    /\ \E o \in (IF h.at = "create_repo" THEN CreateRepoOutcomes(se_org, h.repo_name, ev)
                   ELSE Outcomes(h.at, ev)) :
          LET listed == IF h.at = "list_repos" /\ o = "ok" THEN se_org ELSE h.org_repos
              h2 == Handler([h EXCEPT !.org_repos = listed], ev, o)
          IN  /\ h' = h2
              /\ se_org' = IF h.at = "create_repo" /\ o = "ok"
                           THEN Append(se_org, h.repo_name) ELSE se_org
              /\ se_created' =
                    IF h.at = "create_repo" /\ h2.at = "register_ltd"
                    THEN Append(se_created, [repo_name |-> h.repo_name,
                                             serial_number |-> h.serial_number])
                    ELSE se_created
    /\ UNCHANGED <<se_series, se_count>>
    /\ UNCHANGED <<py37, pc, polls, offset, topic, ev, invoked, inflight, started,
                   lastOutcome, failLog, deserLog, stopCalls, consumerBuilt,
                   cancelAt, cancelOffset, exitFrom, pendingExc, taskResult,
                   pnVars, adVars, appVars, syVars, tiVars, trVars, shVars>>

\* ------------------------------------------------------- title cleaning

Newline == "\n"

\* Characters that \s and str.strip() treat as whitespace.
Whitespace == {Space, Newline}

TitleChars == {"a"} \cup Whitespace

\* All titles of at most MaxTitle characters.
Titles == UNION {[1..n -> TitleChars] : n \in 0..MaxTitle}

\* text.strip()
RECURSIVE StripWhitespace(_)
StripWhitespace(str) ==
    IF str = <<>> THEN str
    ELSE IF Head(str) \in Whitespace THEN StripWhitespace(Tail(str))
    ELSE IF str[Len(str)] \in Whitespace
         THEN StripWhitespace(SubSeq(str, 1, Len(str) - 1))
    ELSE str

\* re.sub(r"\s", " ", text): each whitespace character becomes one space.
SubWhitespace(str) ==
    [k \in DOMAIN str |-> IF str[k] \in Whitespace THEN Space ELSE str[k]]

clean_string_whitespace(text) == SubWhitespace(StripWhitespace(text))

\* event["variables"]["title"] = clean_string_whitespace(
\* event["variables"]["title"]), the first statement of the technote and
\* document prerender handlers; deepcopy(event) comes after it.
CallCleanTitle ==
    /\ ti_pc = "call"
    /\ ti_result' = clean_string_whitespace(ti_event)
    /\ ti_event' = ti_result'
    /\ ti_pc' = "returned"
    /\ UNCHANGED <<ti_title, py37, loopVars, pnVars, adVars, appVars, syVars, trVars, seVars, shVars>>

\* ------------------------------------------------ Travis endpoint choice

TravisOwners == {"lsst", "lsst-sims", "lsst-sqre", "lsst-dm"}

NoSlug == <<>>

\* GitHub slugs owner/name, and no slug.
TravisSlugs == {<<o, n>> : o \in TravisOwners, n \in {"a", "b"}} \cup {NoSlug}

TravisOrgs == TravisOwners \cup {"None"}

\* if org is None and slug is None: raise ValueError; elif slug is None:
\* org = slug.split("/")[0], an attribute access on None; then org is tested
\* as it was passed in.
get_travis_endpoint_type(org, slug) ==
    IF org = "None" /\ slug = NoSlug THEN "ValueError"
    ELSE IF slug = NoSlug THEN "AttributeError"
    ELSE IF org \in {"lsst", "lsst-sims"} THEN "org"
    ELSE "com"

TravisRaises(org, slug) ==
    get_travis_endpoint_type(org, slug) \in {"ValueError", "AttributeError"}

get_travis_url(slug, org) ==
    IF TravisRaises(org, slug) THEN get_travis_endpoint_type(org, slug)
    ELSE IF get_travis_endpoint_type(org, slug) = "com"
         THEN "https://api.travis-ci.com"
    ELSE "https://api.travis-ci.org"

get_travis_token(org, slug) ==
    IF TravisRaises(org, slug) THEN get_travis_endpoint_type(org, slug)
    ELSE IF get_travis_endpoint_type(org, slug) = "com" THEN "travisTokenCom"
    ELSE "travisToken"

\* The host part of the URL; the slug is appended to it unchanged.
make_travis_repo_url(slug) ==
    IF TravisRaises("None", slug) THEN get_travis_endpoint_type("None", slug)
    ELSE IF get_travis_endpoint_type("None", slug) = "com"
         THEN "https://travis-ci.com"
    ELSE "https://travis-ci.org"

TravisFunctions ==
    {"_get_travis_endpoint_type", "_get_travis_url", "_get_travis_token",
     "make_travis_repo_url"}

TravisResult(fn, org, slug) ==
    CASE fn = "_get_travis_endpoint_type" -> get_travis_endpoint_type(org, slug)
      [] fn = "_get_travis_url" -> get_travis_url(slug, org)
      [] fn = "_get_travis_token" -> get_travis_token(org, slug)
      [] OTHER -> make_travis_repo_url(slug)

CallTravisFunction ==
    /\ tr_pc = "call"
    /\ tr_result' = TravisResult(tr_fn, tr_org, tr_slug)
    /\ tr_pc' = IF tr_result' \in {"ValueError", "AttributeError"}
                THEN "raised" ELSE "returned"
    /\ UNCHANGED <<tr_fn, tr_org, tr_slug, py37, loopVars, pnVars, adVars,
                   appVars, syVars, tiVars, seVars, shVars>>

\* ------------------------------------------------- Travis account sync

\* What one GET /user can do: report is_syncing True, report anything else,
\* or fail (the request or the decoding of its body raises).
UserReports == {"syncing", "idle", "error"}

Bump(n) == IF n < MaxSyncPolls THEN n + 1 ELSE n

\* First loop, with the sync in the loop body whatever the poll reported.
PrePoll_SyncWhileSyncing ==
    /\ sy_pc = "pre_poll"
    /\ \E r \in UserReports :
        /\ sy_prePolls' = Bump(sy_prePolls)
        /\ sy_pc' = IF r = "error" THEN "raised" ELSE "sync_request"
        /\ sy_preIdle' = (sy_preIdle \/ r = "idle")
    /\ UNCHANGED <<sy_postPolls, sy_syncs, sy_postIdle, py37, loopVars, pnVars,
                   adVars, appVars, tiVars, trVars, seVars, shVars>>

\* while True: user_data = await get_current_user(...); sleep if
\* user_data["is_syncing"] is True, else break.
PrePoll ==
    /\ sy_pc = "pre_poll"
    /\ \E r \in UserReports :
        /\ sy_prePolls' = Bump(sy_prePolls)
        /\ sy_pc' = CASE r = "syncing" -> "pre_sleep"
                       [] r = "idle" -> "sync_request"
                       [] OTHER -> "raised"
        /\ sy_preIdle' = (sy_preIdle \/ r = "idle")
    /\ UNCHANGED <<sy_postPolls, sy_syncs, sy_postIdle, py37, loopVars, pnVars,
                   adVars, appVars, tiVars, trVars, seVars, shVars>>

\* await asyncio.sleep(10.0) of the first loop.
PreSleep ==
    /\ sy_pc = "pre_sleep"
    /\ sy_pc' = "pre_poll"
    /\ UNCHANGED <<sy_prePolls, sy_postPolls, sy_syncs, sy_preIdle, sy_postIdle,
                   py37, loopVars, pnVars, adVars, appVars, tiVars, trVars, seVars, shVars>>

\* async with http_session.post(url): the request is issued, and reading its
\* answer succeeds or raises.
SyncRequest ==
    /\ sy_pc = "sync_request"
    /\ sy_syncs' = sy_syncs + 1
    /\ \E ok \in BOOLEAN : sy_pc' = IF ok THEN "sync_sleep" ELSE "raised"
    /\ UNCHANGED <<sy_prePolls, sy_postPolls, sy_preIdle, sy_postIdle, py37,
                   loopVars, pnVars, adVars, appVars, tiVars, trVars, seVars, shVars>>

\* await asyncio.sleep(10.0) before the second loop.
SyncSleep ==
    /\ sy_pc = "sync_sleep"
    /\ sy_pc' = "post_poll"
    /\ UNCHANGED <<sy_prePolls, sy_postPolls, sy_syncs, sy_preIdle, sy_postIdle,
                   py37, loopVars, pnVars, adVars, appVars, tiVars, trVars, seVars, shVars>>

\* The second while True loop.
PostPoll ==
    /\ sy_pc = "post_poll"
    /\ \E r \in UserReports :
        /\ sy_postPolls' = Bump(sy_postPolls)
        /\ sy_pc' = CASE r = "syncing" -> "post_sleep"
                       [] r = "idle" -> "final_sleep"
                       [] OTHER -> "raised"
        /\ sy_postIdle' = (sy_postIdle \/ r = "idle")
    /\ UNCHANGED <<sy_prePolls, sy_syncs, sy_preIdle, py37, loopVars, pnVars,
                   adVars, appVars, tiVars, trVars, seVars, shVars>>

\* await asyncio.sleep(10.0) of the second loop.
PostSleep ==
    /\ sy_pc = "post_sleep"
    /\ sy_pc' = "post_poll"
    /\ UNCHANGED <<sy_prePolls, sy_postPolls, sy_syncs, sy_preIdle, sy_postIdle,
                   py37, loopVars, pnVars, adVars, appVars, tiVars, trVars, seVars, shVars>>

\* The last await asyncio.sleep(10.0), after which the coroutine returns.
FinalSleep ==
    /\ sy_pc = "final_sleep"
    /\ sy_pc' = "returned"
    /\ UNCHANGED <<sy_prePolls, sy_postPolls, sy_syncs, sy_preIdle, sy_postIdle,
                   py37, loopVars, pnVars, adVars, appVars, tiVars, trVars, seVars, shVars>>

\* ----------------------------------------------------------- specifications

SyncIdle ==
    /\ sy_pc = "idle"
    /\ sy_prePolls = 0
    /\ sy_postPolls = 0
    /\ sy_syncs = 0
    /\ sy_preIdle = FALSE
    /\ sy_postIdle = FALSE

TitleIdle ==
    /\ ti_title = <<>>
    /\ ti_event = <<>>
    /\ ti_pc = "idle"
    /\ ti_result = <<>>

TravisIdle ==
    /\ tr_fn = "none"
    /\ tr_org = "None"
    /\ tr_slug = NoSlug
    /\ tr_pc = "idle"
    /\ tr_result = "none"

SeriesIdle ==
    /\ se_series = <<>>
    /\ se_org = <<>>
    /\ se_created = <<>>
    /\ se_count = 0

ShutdownIdle ==
    /\ sh_pc = "none"
    /\ sh_errors = 0
    /\ sh_log = <<>>

AuxIdle ==
    /\ SyncIdle
    /\ TitleIdle
    /\ TravisIdle
    /\ SeriesIdle
    /\ ShutdownIdle

PnIdle ==
    /\ series_numbers = <<>>
    /\ pn_pc = "idle"
    /\ pn_arg = <<>>
    /\ pn_result = 0

AdIdle ==
    /\ ad_db = [affiliations |-> [k \in AffilIds |-> NoEntry],
                authors |-> [a \in AuthorIds |-> NoEntry]]
    /\ ad_id = "none"
    /\ ad_pc = "idle"
    /\ ad_result = NoAuthorInfo

LoopFresh ==
    /\ polls = 0
    /\ offset = 0
    /\ topic = "none"
    /\ ev = NoEvent
    /\ h = NoHandler
    /\ invoked = <<>>
    /\ inflight = {}
    /\ started = <<>>
    /\ lastOutcome = "none"
    /\ failLog = {}
    /\ deserLog = {}
    /\ stopCalls = 0
    /\ consumerBuilt = FALSE
    /\ cancelAt = "none"
    /\ cancelOffset = 0
    /\ exitFrom = "none"
    /\ pendingExc = "none"
    /\ taskResult = "running"

\* The task as start_events_listener leaves it: created, not yet run.
LoopInit ==
    /\ pc = "init"
    /\ LoopFresh

\* ------------------------------------------------------- application startup

\* KAFKA_PROTOCOL: unset, PLAINTEXT or SSL.
KafkaProtocols == {"None", "PLAINTEXT", "SSL"}

\* The environment read by create_config: each certificate path is set or None.
Configs ==
    [kafkaProtocol : KafkaProtocols,
     clusterCaPath : BOOLEAN,
     clientCertPath : BOOLEAN,
     clientKeyPath : BOOLEAN]

SslConfig ==
    [kafkaProtocol |-> "SSL", clusterCaPath |-> TRUE,
     clientCertPath |-> TRUE, clientKeyPath |-> TRUE]

\* A configuration whose missing path goes unnoticed.
MissingSslMaterial_Unchecked(c) == FALSE

\* configure_kafka_ssl: one of the three required paths is None.
MissingSslMaterial(c) ==
    \/ ~c.clusterCaPath
    \/ ~c.clientCertPath
    \/ ~c.clientKeyPath

\* A startup handler raised: Application.startup ends and the handlers
\* registered after it never run.
StartupFails(exc) ==
    /\ app_pc' = "failed"
    /\ startupError' = exc

\* cleanup_ctx[0]
InitHttpSession ==
    /\ app_pc = "init_http_session"
    /\ httpSession' = "open"
    /\ app_pc' = "init_gidgethub_session"
    /\ UNCHANGED <<py37, loopVars, pnVars, adVars, auxVars, config, sslContext, producer,
                   startupError>>

\* cleanup_ctx[1]: builds the GitHub client on the session, awaits nothing.
InitGidgethubSession ==
    /\ app_pc = "init_gidgethub_session"
    /\ app_pc' = "configure_kafka_ssl"
    /\ UNCHANGED <<py37, loopVars, pnVars, adVars, auxVars, config, httpSession, sslContext,
                   producer, startupError>>

\* cleanup_ctx[2]. When the protocol is not SSL the generator returns before
\* its yield, so the first __anext__() of the cleanup context raises
\* StopAsyncIteration. With SSL and all paths set, reading the files and
\* loading the certificate chain can fail.
ConfigureKafkaSsl ==
    /\ app_pc = "configure_kafka_ssl"
    /\ IF config.kafkaProtocol # "SSL"
       THEN /\ sslContext' = "None"
            /\ StartupFails("StopAsyncIteration")
       ELSE IF MissingSslMaterial(config)
       THEN /\ StartupFails("RuntimeError")
            /\ UNCHANGED sslContext
       ELSE \E o \in {"ok", "OSError"} :
               IF o = "ok"
               THEN /\ sslContext' = "context"
                    /\ app_pc' = "init_producer"
                    /\ UNCHANGED startupError
               ELSE /\ StartupFails(o)
                    /\ UNCHANGED sslContext
    /\ UNCHANGED <<py37, loopVars, pnVars, adVars, auxVars, config, httpSession, producer>>

\* cleanup_ctx[3]: await producer.start().
InitProducer ==
    /\ app_pc = "init_producer"
    /\ \E o \in {"ok", "KafkaError"} :
          IF o = "ok"
          THEN /\ producer' = "started"
               /\ app_pc' = "init_avro_serializer"
               /\ UNCHANGED startupError
          ELSE /\ StartupFails(o)
               /\ UNCHANGED producer
    /\ UNCHANGED <<py37, loopVars, pnVars, adVars, auxVars, config, httpSession, sslContext>>

\* cleanup_ctx[4]: await registry.get_schema_by_subject().
InitAvroSerializer ==
    /\ app_pc = "init_avro_serializer"
    /\ \E o \in {"ok", "RegistryError"} :
          IF o = "ok"
          THEN /\ app_pc' = "start_events_listener"
               /\ UNCHANGED startupError
          ELSE StartupFails(o)
    /\ UNCHANGED <<py37, loopVars, pnVars, adVars, auxVars, config, httpSession, sslContext,
                   producer>>

\* on_startup, after the cleanup contexts: loop.create_task(consume_events(app)).
StartEventsListener ==
    /\ app_pc = "start_events_listener"
    /\ pc = "none"
    /\ pc' = "init"
    /\ app_pc' = "running"
    /\ UNCHANGED <<py37, polls, offset, topic, ev, h, invoked, inflight, started,
                   lastOutcome, failLog, deserLog, stopCalls, consumerBuilt,
                   cancelAt, cancelOffset, exitFrom, pendingExc, taskResult,
                   pnVars, adVars, auxVars, config, httpSession, sslContext, producer,
                   startupError>>

\* --- Application.cleanup: on_cleanup holds cleanup_ctx._on_cleanup, put
\* there when the Application was constructed, and after it
\* stop_events_listener; the signal awaits its receivers in that order.

\* cleanup_ctx._on_cleanup resumes the generators in reverse order and
\* collects their exceptions: init_avro_serializer has nothing after its
\* yield, init_producer awaits producer.stop().
CleanupProducer ==
    /\ sh_pc = "serving"
    /\ \E o \in {"ok", "KafkaError"} :
          sh_errors' = IF o = "ok" THEN sh_errors ELSE sh_errors + 1
    /\ producer' = "stopped"
    /\ sh_log' = Append(sh_log, "producer.stop")
    /\ sh_pc' = "close_http_session"
    /\ UNCHANGED <<py37, loopVars, pnVars, adVars, syVars, tiVars, trVars, seVars,
                   config, app_pc, httpSession, sslContext, startupError>>

\* configure_kafka_ssl and init_gidgethub_session have nothing after their
\* yield; init_http_session awaits session.close(). An exception collected
\* on the way is raised now and ends Application.cleanup.
CleanupHttpSession ==
    /\ sh_pc = "close_http_session"
    /\ httpSession' = "closed"
    /\ sh_log' = Append(sh_log, "httpSession.close")
    /\ sh_pc' = IF sh_errors > 0 THEN "failed" ELSE "stop_events_listener"
    /\ UNCHANGED <<py37, loopVars, pnVars, adVars, syVars, tiVars, trVars, seVars,
                   config, app_pc, producer, sslContext, startupError, sh_errors>>

\* app["templatebot-aide/events_consumer_task"].cancel()
StopEventsListener ==
    /\ sh_pc = "stop_events_listener"
    /\ sh_log' = Append(sh_log, "task.cancel")
    /\ sh_pc' = "awaiting_task"
    /\ UNCHANGED <<py37, loopVars, pnVars, adVars, syVars, tiVars, trVars, seVars,
                   appVars, sh_errors>>

\* await app["templatebot-aide/events_consumer_task"] ends when the task has.
TaskAwaited ==
    /\ sh_pc = "awaiting_task"
    /\ pc = "done"
    /\ sh_log' = Append(sh_log, "task.done")
    /\ sh_pc' = "done"
    /\ UNCHANGED <<py37, loopVars, pnVars, adVars, syVars, tiVars, trVars, seVars,
                   appVars, sh_errors>>

\* The application after a startup in which every handler succeeded.
AppRunning ==
    /\ config = SslConfig
    /\ app_pc = "running"
    /\ httpSession = "open"
    /\ sslContext = "context"
    /\ producer = "started"
    /\ startupError = "none"

\* The service: one consume_events task, on either interpreter.
Init ==
    /\ py37 \in BOOLEAN
    /\ AuxIdle
    /\ LoopInit
    /\ PnIdle
    /\ AdIdle
    /\ AppRunning

Next ==
    \/ TaskStart
    \/ CancelBeforeStart
    \/ ConsumerStart
    \/ AssignmentPoll
    \/ Deliver
    \/ WaitRaises
    \/ DeserializeRaises
    \/ DeserializeAndRoute
    \/ HandlerStep
    \/ ConsumerStop

Spec == Init /\ [][Next]_vars

\* The application as create_app returns it, under every configuration.
InitApp ==
    /\ py37 \in BOOLEAN
    /\ AuxIdle
    /\ pc = "none"
    /\ LoopFresh
    /\ PnIdle
    /\ AdIdle
    /\ config \in Configs
    /\ app_pc = "init_http_session"
    /\ httpSession = "none"
    /\ sslContext = "unset"
    /\ producer = "none"
    /\ startupError = "none"

\* Application.startup, then the task it created.
NextApp ==
    \/ InitHttpSession
    \/ InitGidgethubSession
    \/ ConfigureKafkaSsl
    \/ InitProducer
    \/ InitAvroSerializer
    \/ StartEventsListener
    \/ Next

SpecApp == InitApp /\ [][NextApp]_vars

\* route_event called with an event and a topic name of TopicNames: the loop
\* body at its first message, whose topic may be any of them.
LoopAtFirstMessage ==
    /\ pc = "deserializing"
    /\ polls = 0
    /\ offset = 1
    /\ topic \in TopicNames
    /\ ev = NoEvent
    /\ h = NoHandler
    /\ invoked = <<>>
    /\ inflight = {}
    /\ started = <<>>
    /\ lastOutcome = "none"
    /\ failLog = {}
    /\ deserLog = {}
    /\ stopCalls = 0
    /\ consumerBuilt = TRUE
    /\ cancelAt = "none"
    /\ cancelOffset = 0
    /\ exitFrom = "none"
    /\ pendingExc = "none"
    /\ taskResult = "running"

InitRoute ==
    /\ py37 \in BOOLEAN
    /\ AuxIdle
    /\ PnIdle
    /\ AdIdle
    /\ AppRunning
    /\ LoopAtFirstMessage

NextRoute ==
    \/ DeserializeAndRoute
    \/ HandlerStep

SpecRoute == InitRoute /\ [][NextRoute]_vars

\* get_author applied to every registry of AuthorDbs and every id.
InitAuthor ==
    /\ py37 = FALSE
    /\ AuxIdle
    /\ LoopInit
    /\ PnIdle
    /\ AppRunning
    /\ ad_db \in AuthorDbs
    /\ ad_id \in AuthorIds
    /\ ad_pc = "call"
    /\ ad_result = NoAuthorInfo

NextAuthor == CallGetAuthor

SpecAuthor == InitAuthor /\ [][NextAuthor]_vars

\* The Travis release's loop body at its first message, a postrender one.
InitTravis ==
    /\ InitRoute
    /\ topic = PostrenderTopic

NextTravis ==
    \/ RouteTechnotePostrenderTravis
    \/ HandlerStep

SpecTravis == InitTravis /\ [][NextTravis]_vars

\* One call of sync_travis_account. The event loop resumes the coroutine
\* whenever the sleep or the request it awaits has completed.
InitSync ==
    /\ py37 \in BOOLEAN
    /\ LoopInit
    /\ PnIdle
    /\ AdIdle
    /\ AppRunning
    /\ sy_pc = "pre_poll"
    /\ sy_prePolls = 0
    /\ sy_postPolls = 0
    /\ sy_syncs = 0
    /\ sy_preIdle = FALSE
    /\ sy_postIdle = FALSE
    /\ TitleIdle
    /\ TravisIdle
    /\ SeriesIdle
    /\ ShutdownIdle

NextSync ==
    \/ PrePoll
    \/ PreSleep
    \/ SyncRequest
    \/ SyncSleep
    \/ PostPoll
    \/ PostSleep
    \/ FinalSleep

SpecSync == InitSync /\ [][NextSync]_vars /\ WF_vars(NextSync)

\* clean_string_whitespace applied to every title of Titles.
InitTitle ==
    /\ py37 = FALSE
    /\ LoopInit
    /\ PnIdle
    /\ AdIdle
    /\ AppRunning
    /\ SyncIdle
    /\ ti_title \in Titles
    /\ ti_event = ti_title
    /\ ti_pc = "call"
    /\ ti_result = <<>>
    /\ TravisIdle
    /\ SeriesIdle
    /\ ShutdownIdle

NextTitle == CallCleanTitle

SpecTitle == InitTitle /\ [][NextTitle]_vars

\* Each endpoint function applied to every org and slug; make_travis_repo_url
\* takes a slug only.
InitEndpoint ==
    /\ py37 = FALSE
    /\ LoopInit
    /\ PnIdle
    /\ AdIdle
    /\ AppRunning
    /\ SyncIdle
    /\ TitleIdle
    /\ tr_fn \in TravisFunctions
    /\ tr_org \in TravisOrgs
    /\ tr_slug \in TravisSlugs
    /\ tr_fn = "make_travis_repo_url" => tr_org = "None"
    /\ tr_pc = "call"
    /\ tr_result = "none"
    /\ SeriesIdle
    /\ ShutdownIdle

NextEndpoint == CallTravisFunction

SpecEndpoint == InitEndpoint /\ [][NextEndpoint]_vars

\* One loop handling technote-prerender events of one series, in an
\* organization that starts with any of the listings of RepoListings.
InitSeries ==
    /\ py37 = FALSE
    /\ LoopInit
    /\ PnIdle
    /\ AdIdle
    /\ AppRunning
    /\ SyncIdle
    /\ TitleIdle
    /\ TravisIdle
    /\ se_series \in {<<"S","Q","R">>, <<"L","D","M">>}
    /\ se_org \in RepoListings
    /\ se_created = <<>>
    /\ se_count = 0
    /\ ShutdownIdle

NextSeries ==
    \/ SeriesRoute
    \/ SeriesStep

SpecSeries == InitSeries /\ [][NextSeries]_vars

\* The running application, its loop at the first message, from the moment
\* Application.cleanup is called.
InitShutdown ==
    /\ py37 \in BOOLEAN
    /\ PnIdle
    /\ AdIdle
    /\ AppRunning
    /\ SyncIdle
    /\ TitleIdle
    /\ TravisIdle
    /\ SeriesIdle
    /\ LoopAtFirstMessage
    /\ topic \in SubscribedTopics
    /\ sh_pc = "serving"
    /\ sh_errors = 0
    /\ sh_log = <<>>

NextShutdown ==
    \/ CleanupProducer
    \/ CleanupHttpSession
    \/ StopEventsListener
    \/ TaskAwaited
    \/ WaitRaises
    \/ DeserializeRaises
    \/ DeserializeAndRoute
    \/ HandlerStep
    \/ ConsumerStop

SpecShutdown == InitShutdown /\ [][NextShutdown]_vars

\* propose_number applied to every list of NumberLists.
InitPropose ==
    /\ py37 = FALSE
    /\ AuxIdle
    /\ LoopInit
    /\ AdIdle
    /\ AppRunning
    /\ series_numbers \in NumberLists
    /\ pn_arg = series_numbers
    /\ pn_pc = "call"
    /\ pn_result = 0

NextPropose == CallProposeNumber

SpecPropose == InitPropose /\ [][NextPropose]_vars

\* ------------------------------------------------------------------ claims

PrerenderHandlers == {"generic_prerender", "technote_prerender", "document_prerender"}

\* The current message has been deserialized.
Deserialized == ev.template_name # "none"

\* C1: for every non-empty list of non-negative integers, in any order and
\* possibly with duplicates, propose_number returns r >= 1 that is not in
\* the list, and every k with 1 <= k < r is in the list.
C1_SmallestUnused ==
    (pn_pc # "call" /\ pn_arg # <<>>) =>
        /\ pn_pc = "returned"
        /\ pn_result >= 1
        /\ pn_result \notin Elems(pn_arg)
        /\ \A k \in 1..(pn_result - 1) : k \in Elems(pn_arg)

\* C2: for an event on the prerender topic route_event calls exactly one
\* handler: technote-prerender for a technote template, document-prerender
\* for a DocuShare template, generic-prerender for every other template.
C2_PrerenderRoutesToOne ==
    (topic = PrerenderTopic /\ Deserialized) =>
        /\ Len(invoked) = 1
        /\ h.name = invoked[1]
        /\ (ev.template_name \in TECHNOTE_TEMPLATES => invoked[1] = "technote_prerender")
        /\ (ev.template_name \in DOCUSHARE_TEMPLATES => invoked[1] = "document_prerender")
        /\ (ev.template_name \notin TECHNOTE_TEMPLATES \cup DOCUSHARE_TEMPLATES
               => invoked[1] = "generic_prerender")

C2_Witness ==
    /\ topic = PrerenderTopic
    /\ ev.template_name = "technote_rst"
    /\ invoked = <<"technote_prerender">>
    /\ pc = "routing"
    /\ h.name = "technote_prerender"
    /\ h.calls # <<>>

\* C3: for an event on the postrender topic whose template is in neither
\* set, route_event calls no handler and no provider call is made.
C3_PostrenderUnknownIsIgnored ==
    (topic = PostrenderTopic /\ Deserialized
        /\ ev.template_name \notin TECHNOTE_TEMPLATES \cup DOCUSHARE_TEMPLATES) =>
        /\ invoked = <<>>
        /\ h = NoHandler
        /\ offset \notin Elems(started)
        /\ pc # "routing"

C3_Witness ==
    /\ topic = PostrenderTopic
    /\ ev.template_name = "stack_package"
    /\ invoked = <<>>
    /\ pc = "waiting"
    /\ lastOutcome = "handled"

\* C4: when the handler for a message raises a processing failure, the loop
\* logs "Failed to handle event message" for it, does not leave the try
\* block, and waits for the next message; the failure does not end the loop.
C4_HandlerFailureSwallowed ==
    (h.status = "raised" /\ h.exc # "CancelledError") =>
        /\ offset \in failLog
        /\ lastOutcome = "handler_failed"
        /\ exitFrom \in {"none", "waiting"}
        /\ (exitFrom = "none" => pc = "waiting" /\ stopCalls = 0 /\ taskResult = "running")

\* The message after one whose handler failed is pulled, deserialized and routed.
C4_Witness ==
    /\ lastOutcome = "handler_failed"
    /\ 1 \in failLog
    /\ offset = 2
    /\ pc = "routing"
    /\ h.status = "running"

\* C5: when deserialization of a message fails, the failure is logged, no
\* handler is called for that message, and the loop goes on to the next
\* message: the loop is left at the deserialization only by cancellation.
C5_DeserializeFailureSkipsMessage ==
    /\ deserLog \cap Elems(started) = {}
    /\ (exitFrom = "deserializing" => cancelAt = "deserializing")
    /\ (lastOutcome = "deser_failed" /\ pc = "waiting") =>
          /\ offset \in deserLog
          /\ invoked = <<>>
          /\ h = NoHandler
          /\ ev = NoEvent

C5_Witness ==
    /\ lastOutcome = "deser_failed"
    /\ deserLog = {1}
    /\ cancelAt = "none"
    /\ offset = 2
    /\ pc = "routing"

RECURSIVE Increasing(_)
Increasing(s) ==
    Len(s) < 2 \/ (s[1] < s[2] /\ Increasing(Tail(s)))

\* C6: at most one workflow is in flight; the handler of the next message is
\* not called before the handler of the current one has returned or raised,
\* and handlers are called in delivery order.
C6_OneWorkflowInFlight ==
    /\ Cardinality(inflight) <= 1
    /\ Increasing(started)
    /\ (pc = "routing" => inflight = {offset})
    /\ (pc \in {"waiting", "deserializing"} => inflight = {})

C6_Witness ==
    /\ started = <<1, 2>>
    /\ inflight = {2}
    /\ pc = "routing"

\* C7: however consume_events ends once its consumer exists, consumer.stop()
\* has been called exactly once, and it is never called twice.
C7_StopExactlyOnce ==
    /\ stopCalls <= 1
    /\ (pc \in {"stopping", "done"} /\ consumerBuilt) => stopCalls = 1
    /\ (pc \notin {"stopping", "done"}) => stopCalls = 0

\* Cancellation racing with a workflow in flight.
C7_Witness ==
    /\ pc = "done"
    /\ cancelAt = "routing"
    /\ exitFrom = "routing"
    /\ h.status = "raised"
    /\ stopCalls = 1

\* C8: when the task is cancelled while a handler is in flight, no "Failed
\* to handle event message" record is made for that message, no further
\* message is pulled, and the task is on its way out.
C8_CancelInFlightEndsTask ==
    cancelAt = "routing" =>
        /\ cancelOffset \notin failLog
        /\ offset = cancelOffset
        /\ pc \in {"stopping", "done"}

C10_LtdFailureStillPublishes ==
    (/\ h.name \in {"technote_prerender", "document_prerender"}
     /\ h.ltdResult = "OtherError"
     /\ h.status # "running"
     /\ h.exc \notin {"OtherError", "CancelledError"}) =>
        /\ Len(SelectSeq(h.calls, LAMBDA c : c = "register_ltd")) = 1
        /\ h.status = "returned"
        /\ h.published = 1

\* C11: in document-prerender, once the resolved series is a known technote
\* handle prefix, the handler never calls create_repo or
\* register_ltd_product, never publishes a render-ready event, and does not
\* return normally.
C11_TechnoteGuardAborts ==
    (h.name = "document_prerender" /\ h.series \in KNOWN_TECHNOTE_HANDLES) =>
        /\ "create_repo" \notin Elems(h.calls)
        /\ "register_ltd" \notin Elems(h.calls)
        /\ "publish" \notin Elems(h.calls)
        /\ h.repoResult = "none"
        /\ h.ltdResult = "none"
        /\ h.published = 0
        /\ h.status # "returned"
        /\ (h.status = "running" => h.at \in {"post_no_handle", "post_is_technote"})

C11_Witness ==
    /\ h.name = "document_prerender"
    /\ ev.handle = Var(<<"S","Q","R","-","1">>)
    /\ h.series = <<"S","Q","R">>
    /\ h.calls = <<"post_is_technote">>
    /\ h.status = "raised"
    /\ h.exc = "RuntimeError"

\* The calls that post a chat message: post_message and print_input.
ChatCalls ==
    {"post_author_help", "print_input_author", "post_no_handle", "post_is_technote",
     "post_apology", "post_repo_identity", "print_input_repo", "post_docs_url",
     "post_docs_failed", "print_input_ltd", "post_pr_done", "post_pr_failed"}

\* C12: on every path of every handler, when the event's slack_username is
\* null the handler posts no chat message.
C12_NoUserNoChat ==
    (h.name # "none" /\ ~ev.has_user) => Elems(h.calls) \cap ChatCalls = {}

\* The chat messages a handler has posted, in order.
ChatPosted == SelectSeq(h.calls, LAMBDA c : c \in ChatCalls)

\* C13: in generic-prerender, when create_repo fails with the provider's
\* exception and a slack_username is present, the handler has, by the time
\* it ends, posted exactly two messages (the apology, then the repository
\* it tried) and ends by re-raising the provider's exception.  Ends by a
\* chat call that raised, or by cancellation, are left out.
C13_GenericTwoMessagesThenReraise ==
    (/\ h.name = "generic_prerender"
     /\ h.repoResult = "GitHubException"
     /\ ev.has_user
     /\ h.status # "running"
     /\ h.exc \notin {"OtherError", "CancelledError"}) =>
        /\ ChatPosted = <<"post_apology", "post_repo_identity">>
        /\ h.status = "raised"
        /\ h.exc = "GitHubException"

\* C14: in generic-prerender, for an event without slack_username whose
\* create_repo succeeded, no call to the chat provider is made, at most one
\* render-ready event is published, and when the handler returns exactly
\* one has been published, with github_repo the html_url create_repo
\* returned and retry_count 0.
C14_GenericNoUserPublish ==
    (h.name = "generic_prerender" /\ ~ev.has_user /\ h.repoResult = "ok") =>
        /\ Elems(h.calls) \cap (ChatCalls \cup {"get_user_info"}) = {}
        /\ h.calls = <<"create_repo", "publish">>
        /\ h.published <= 1
        /\ h.html_url = RepoUrl(PackageName)
        /\ (h.status = "returned" =>
               /\ h.published = 1
               /\ h.rr.github_repo = h.html_url
               /\ h.rr.retry_count = <<0>>)
        /\ (h.status = "raised" => h.published = 0)

C14_Witness ==
    /\ h.name = "generic_prerender"
    /\ ev.template_name = "stack_package"
    /\ ~ev.has_user
    /\ h.repoResult = "ok"
    /\ h.status = "returned"
    /\ h.published = 1
    /\ h.rr.github_repo = RepoUrl(PackageName)

\* The whole name, compared case-insensitively, is <series>-<digits>.
IsSeriesRepo(name, series) ==
    LET n == lower(name)
        p == lower(series) \o <<"-">>
    IN  /\ Len(n) > Len(p)
        /\ \A k \in 1..Len(p) : n[k] = p[k]
        /\ \A k \in (Len(p) + 1)..Len(n) : n[k] \in Digit

\* The numbers of the repositories of a series among repos.
SeriesRepoNumbers(series, repos) ==
    LET own == SelectSeq(repos, LAMBDA name : IsSeriesRepo(name, series))
    IN  [k \in DOMAIN own |->
            ParseInt(SubSeq(own[k], Len(series) + 2, Len(own[k])))]

\* C15: in technote-prerender the repository name requested from
\* create_repo is the lower-cased series, a hyphen and NNN, where NNN is
\* three digits whose value is propose_number of the numbers of the listed
\* repositories named <series>-<digits> (whole name, case-insensitive), and
\* the published render-ready event has variables.serial_number = NNN.
C15_TechnoteRepoName ==
    (h.name = "technote_prerender" /\ "create_repo" \in Elems(h.calls)) =>
        LET NNN == h.serial_number
        IN  /\ Len(NNN) = 3
            /\ \A k \in 1..3 : NNN[k] \in Digit
            /\ ParseInt(NNN) =
                   propose_number(SeriesRepoNumbers(ev.series.val, h.org_repos))
            /\ h.repo_name = lower(ev.series.val) \o <<"-">> \o NNN
            /\ (h.published = 1 => h.rr.serial_number = Var(NNN))

\* The listing sqr-004, sqr-001, sqr-002 gives sqr-003 and "003".
C15_Witness ==
    /\ h.name = "technote_prerender"
    /\ ev.series = Var(<<"S","Q","R">>)
    /\ Len(h.org_repos) = 3
    /\ h.repo_name = <<"s","q","r","-","0","0","3">>
    /\ h.published = 1
    /\ h.rr.serial_number = Var(<<"0","0","3">>)

\* The variable holds a non-empty value in the incoming event.
NonEmpty(v) == v.present /\ v.val # <<>>

\* C16: when the incoming prerender event has a non-empty variables.series,
\* the render-ready message a prerender handler builds and publishes has
\* variables.series equal to it.
C16_SeriesKept ==
    (h.name \in PrerenderHandlers /\ NonEmpty(ev.series) /\ h.rr # NoMessage) =>
        h.rr.series = ev.series

\* A document whose handle names another series than variables.series.
C16_Witness ==
    /\ h.name = "document_prerender"
    /\ ev.handle = Var(<<"S","Q","R","-","1">>)
    /\ ev.series = Var(<<"L","D","M">>)
    /\ h.published = 1
    /\ h.rr.series = Var(<<"L","D","M">>)

\* C17: every variable of the incoming prerender event that holds a
\* non-empty value holds the same value in the published render-ready
\* event; series and serial_number are written only when absent or empty.
C17_VariablesKept ==
    (h.name \in PrerenderHandlers /\ h.published = 1) =>
        /\ (NonEmpty(ev.series) => h.rr.series = ev.series)
        /\ (NonEmpty(ev.serial_number) => h.rr.serial_number = ev.serial_number)

PostrenderHandlers == {"technote_postrender", "document_postrender"}

\* C18: in the postrender handlers, a failure of a step of
\* pr_latex_submodules (the authenticated-user lookup, the git work, the
\* pull request) does not leave the handler: with a slack_username the
\* failure message is sent and the handler can then only be ended early by
\* that chat call; without one the handler returns and posts nothing.
C18_PrFailureNotPropagated ==
    (/\ h.name \in PostrenderHandlers
     /\ h.prFailure \notin {"none", "CancelledError"}
     /\ "post_pr_done" \notin Elems(h.calls)) =>
        /\ (ev.has_user =>
               /\ "post_pr_failed" \in Elems(h.calls)
               /\ (h.status = "raised" => h.calls[Len(h.calls)] = "post_pr_failed"))
        /\ (~ev.has_user => h.status = "returned" /\ ChatPosted = <<>>)
        /\ (h.status # "raised" => offset \notin failLog)

C18_Witness ==
    /\ h.name = "technote_postrender"
    /\ ev.template_name = "technote_latex"
    /\ ev.has_user
    /\ h.prFailure = "GitHubException"
    /\ h.calls = <<"pr_get_user", "pr_sleep", "pr_create", "post_pr_failed">>
    /\ h.status = "returned"

\* The smallest unused positive integer of a set of positive integers: 1
\* when 1 is missing, else s + 1 for the smallest s whose successor is missing.
FirstGap(S) ==
    IF 1 \notin S THEN 1
    ELSE LET s == CHOOSE x \in S :
                     /\ x + 1 \notin S
                     /\ \A y \in S : y + 1 \notin S => x <= y
         IN  s + 1

\* C20: for distinct positive integers given in any order, propose_number
\* returns 1 when the set is empty or lacks 1, and otherwise s + 1 for the
\* smallest element s whose successor is missing.
C20_DistinctPositive ==
    (/\ pn_pc # "call"
     /\ Cardinality(Elems(pn_arg)) = Len(pn_arg)
     /\ \A k \in DOMAIN pn_arg : pn_arg[k] >= 1) =>
        /\ pn_pc = "returned"
        /\ pn_result = FirstGap(Elems(pn_arg))

\* An unsorted list with a hole: [3, 1] gives 2.
C20_Witness ==
    /\ pn_pc = "returned"
    /\ pn_arg = <<3, 1>>
    /\ pn_result = 2

\* The handlers Application.startup runs after configure_kafka_ssl.
AfterKafkaSsl ==
    {"init_producer", "init_avro_serializer", "start_events_listener", "running"}

\* C19: with protocol SSL and the cluster CA, client certificate or client
\* key path unset, startup never gets past configure_kafka_ssl, where it
\* fails with RuntimeError: the producer is never started, the
\* consume_events task is never created and no message is ever pulled.
C19_MissingSslMaterialStopsStartup ==
    (/\ config.kafkaProtocol = "SSL"
     /\ \E path \in {"clusterCaPath", "clientCertPath", "clientKeyPath"} :
           ~config[path]) =>
        /\ app_pc \notin AfterKafkaSsl
        /\ app_pc = "failed" => startupError = "RuntimeError"
        /\ producer = "none"
        /\ pc = "none"
        /\ offset = 0
        /\ started = <<>>

\* Startup failed for want of the client key alone.
C19_Witness ==
    /\ config = [SslConfig EXCEPT !.clientKeyPath = FALSE]
    /\ app_pc = "failed"
    /\ startupError = "RuntimeError"
    /\ httpSession = "open"
    /\ producer = "none"
    /\ pc = "none"

\* C21: for every list of integers, empty, unsorted or with duplicates,
\* propose_number returns from inside its scan (or before it, for the empty
\* list); the RuntimeError after the loop is never raised.
C21_ScanAlwaysReturns ==
    /\ pn_pc # "raised"
    /\ pn_pc = "returned" => pn_result >= 1

\* An unsorted list with a duplicate.
C21_Witness ==
    /\ pn_pc = "returned"
    /\ pn_arg = <<2, 1, 1>>
    /\ pn_result = 2

C23_OtherTopicIgnored ==
    (topic \notin SubscribedTopics /\ Deserialized) =>
        /\ invoked = <<>>
        /\ h = NoHandler
        /\ started = <<>>
        /\ inflight = {}
        /\ pc = "waiting"
        /\ lastOutcome = "handled"

\* A technote event on the render-ready topic has been routed.
C23_Witness ==
    /\ topic = RenderreadyTopic
    /\ ev.template_name = "technote_latex"
    /\ ev.has_user
    /\ invoked = <<>>
    /\ pc = "waiting"

\* The positions of a call in the handler's call history.
CallsOf(call) == {k \in DOMAIN h.calls : h.calls[k] = call}

\* C24: a prerender handler sends a render-ready event only after its own
\* create_repo call succeeded, sends at most one per event, and the event
\* carries the created repository's URL as github_repo and retry_count 0.
C24_PublishAfterRepo ==
    (h.name \in PrerenderHandlers /\ CallsOf("publish") # {}) =>
        /\ h.repoResult = "ok"
        /\ Cardinality(CallsOf("create_repo")) = 1
        /\ Cardinality(CallsOf("publish")) = 1
        /\ \A c \in CallsOf("create_repo") : \A p \in CallsOf("publish") : c < p
        /\ h.published <= 1
        /\ h.rr.github_repo = <<"https://github.com/lsst/">> \o h.repo_name
        /\ h.rr.retry_count = <<0>>

\* A document prerender that published for the repository LDM-1.
C24_Witness ==
    /\ h.name = "document_prerender"
    /\ h.status = "returned"
    /\ h.published = 1
    /\ h.repo_name = <<"L","D","M","-","1">>
    /\ h.rr.github_repo = <<"https://github.com/lsst/", "L","D","M","-","1">>

\* C25: in technote-prerender, when author_id is present and not in the
\* author registry, the handler posts the corrective message, echoes the
\* input and re-raises the lookup's KeyError, having made no other call.
\* Ends by a provider call that failed, or by cancellation, are left out.
C25_UnknownAuthorAborts ==
    (/\ h.name = "technote_prerender"
     /\ ev.author_id = "unknown"
     /\ h.status = "raised"
     /\ h.exc \notin {"OtherError", "CancelledError"}) =>
        /\ h.exc = "KeyError"
        /\ h.calls = <<"authordb_download", "post_author_help", "print_input_author">>

\* C26: get_author raises KeyError exactly when the id is not a key of the
\* authors mapping; for an id that is, it returns a record whose affiliation
\* id, name and address are those of the first listed affiliation, or are
\* all empty when the author lists none.
C26_NotFoundIffAbsent ==
    ad_pc \notin {"idle", "call"} =>
        /\ (ad_pc = "raised") <=> (ad_db.authors[ad_id] = NoEntry)
        /\ ad_pc = "returned" =>
              IF ad_db.authors[ad_id] = <<>>
              THEN /\ ad_result.affiliation_id = <<>>
                   /\ ad_result.affiliation_name = <<>>
                   /\ ad_result.affiliation_address = <<>>
              ELSE ad_result.affiliation_id = <<ad_db.authors[ad_id][1]>>

\* variables.series and variables.serial_number are both present and non-empty.
HasSeriesAndSerial ==
    /\ ev.series.present /\ ev.series.val # <<>>
    /\ ev.serial_number.present /\ ev.serial_number.val # <<>>

IsFullHandle(str) ==
    \E k \in 2..(Len(str) - 1) :
        /\ str[k] = "-"
        /\ \A j \in 1..(k - 1) : str[j] \in Upper
        /\ \A j \in (k + 1)..Len(str) : str[j] \in Digit

\* C28: in document-prerender, a handle that is not, as a whole, uppercase
\* letters, a hyphen and digits yields no series and no serial_number: with
\* those variables absent or empty, the resolved series and serial_number
\* stay empty.
C28_HandleFullMatch ==
    (/\ h.name = "document_prerender"
     /\ ev.vars_ok
     /\ ev.handle.present
     /\ ~IsFullHandle(ev.handle.val)) =>
        /\ (~ev.series.present \/ ev.series.val = <<>>) => h.series = <<>>
        /\ (~ev.serial_number.present \/ ev.serial_number.val = <<>>) =>
              h.serial_number = <<>>

\* C29: in technote-prerender and document-prerender, when create_repo fails
\* with the provider's exception and a slack_username is present, a handler
\* that ends by re-raising it has posted the apology, the repository it
\* tried and the echo of the input, in this order.
C29_RepoFailureThreeMessages ==
    (/\ h.name \in {"technote_prerender", "document_prerender"}
     /\ h.repoResult = "GitHubException"
     /\ ev.has_user
     /\ h.status = "raised"
     /\ h.exc = "GitHubException") =>
        ChatPosted = <<"post_apology", "post_repo_identity", "print_input_repo">>

\* The last call the handler made.
LastCall == IF h.calls = <<>> THEN "none" ELSE h.calls[Len(h.calls)]

\* C30: in the technote postrender handler that activates Travis CI, once
\* sync_travis_account or activate_travis has failed the handler makes no
\* call but the failure message (sent when a slack_username is present) and
\* ends by raising, with the failure itself unless that message's post
\* failed; a failure inside the credentials pull-request step does not
\* leave the handler, which posts its failure message (when a
\* slack_username is present) and returns.
C30_CiFailuresRaisePrFailureSwallowed ==
    h.name = "technote_postrender_travis" =>
        /\ h.syncResult = "TravisError" =>
              /\ h.status # "returned"
              /\ h.activateResult = "none"
              /\ LastCall = IF ev.has_user THEN "post_sync_failed" ELSE "sync_travis"
              /\ (h.status = "raised" =>
                     h.exc \in {"TravisError"} \cup
                               (IF ev.has_user THEN {"OtherError", "CancelledError"} ELSE {}))
        /\ h.activateResult = "TravisError" =>
              /\ h.status # "returned"
              /\ h.prFailure = "none"
              /\ LastCall = IF ev.has_user THEN "post_activate_failed" ELSE "activate_travis"
              /\ (h.status = "raised" =>
                     h.exc \in {"TravisError"} \cup
                               (IF ev.has_user THEN {"OtherError", "CancelledError"} ELSE {}))
        /\ (h.prFailure \notin {"none", "CancelledError"}
             /\ "post_cred_done" \notin Elems(h.calls)) =>
              /\ (ev.has_user =>
                     /\ LastCall = "post_cred_failed"
                     /\ (h.status = "raised" => h.exc \in {"OtherError", "CancelledError"}))
              /\ (~ev.has_user => h.status = "returned")
              /\ (h.status # "raised" => offset \notin failLog)

\* The sync failed, the user was told, and the failure left the handler.
C30_Witness ==
    /\ h.name = "technote_postrender_travis"
    /\ ev.has_user
    /\ h.syncResult = "TravisError"
    /\ h.calls = <<"register_ltd", "post_docs_url", "sync_travis", "post_sync_failed">>
    /\ h.status = "raised"
    /\ h.exc = "TravisError"
    /\ offset \in failLog


\* C31: sync_travis_account issues at most one sync request, and only after a
\* poll of the first loop saw is_syncing not True; when it has returned it has
\* issued exactly one, and both loops saw is_syncing not True; and once both
\* loops have seen that, it returns. Neither loop bounds its polls.
C31_OneSyncReturnsIffIdleTwice ==
    /\ [](/\ sy_syncs <= 1
          /\ (sy_syncs = 1 => sy_preIdle)
          /\ (sy_pc = "returned" => sy_syncs = 1 /\ sy_preIdle /\ sy_postIdle)
          /\ (sy_postIdle => sy_preIdle))
    /\ ((sy_preIdle /\ sy_postIdle) ~> (sy_pc = "returned"))

\* A call that returned after as many polls as the counters can tell apart in
\* each loop.
C31_Witness ==
    /\ sy_pc = "returned"
    /\ sy_prePolls = MaxSyncPolls
    /\ sy_postPolls = MaxSyncPolls
    /\ sy_syncs = 1


\* C32: the cleaned title neither starts nor ends with whitespace, holds no
\* whitespace other than the space, and never holds two adjacent spaces.
C32_TitleRunsCollapsed ==
    ti_pc = "returned" =>
        /\ ti_result # <<>> =>
              ti_result[1] \notin Whitespace /\ ti_result[Len(ti_result)] \notin Whitespace
        /\ \A k \in DOMAIN ti_result : ti_result[k] \in Whitespace => ti_result[k] = Space
        /\ \A k \in 1..(Len(ti_result) - 1) :
              ~(ti_result[k] = Space /\ ti_result[k + 1] = Space)


\* The .org or .com value each endpoint function stands for.
EndpointValue(fn, kind) ==
    CASE fn = "_get_travis_endpoint_type" -> kind
      [] fn = "_get_travis_url" -> IF kind = "org" THEN "https://api.travis-ci.org"
                                   ELSE "https://api.travis-ci.com"
      [] fn = "_get_travis_token" -> IF kind = "org" THEN "travisToken"
                                     ELSE "travisTokenCom"
      [] OTHER -> IF kind = "org" THEN "https://travis-ci.org"
                  ELSE "https://travis-ci.com"

\* C33: called with a slug only, or with an org only, each endpoint function
\* returns, and returns the .org value when the owner is lsst or lsst-sims
\* and the .com value for every other owner.
C33_OrgEndpointForLsstOwners ==
    /\ (tr_pc # "call" /\ tr_pc # "idle" /\ tr_slug # NoSlug /\ tr_org = "None") =>
          /\ tr_pc = "returned"
          /\ tr_result = EndpointValue(tr_fn,
                IF tr_slug[1] \in {"lsst", "lsst-sims"} THEN "org" ELSE "com")
    /\ (tr_pc # "call" /\ tr_pc # "idle" /\ tr_slug = NoSlug /\ tr_org # "None") =>
          /\ tr_pc = "returned"
          /\ tr_result = EndpointValue(tr_fn,
                IF tr_org \in {"lsst", "lsst-sims"} THEN "org" ELSE "com")


\* C34: a technote or document prerender handler whose create_repo succeeded
\* goes on to publish: if it raises, other than by cancellation or because the
\* user-info request itself raised, it raises from the publication.
C34_CreatedRepoIsPublished ==
    (/\ h.name \in {"technote_prerender", "document_prerender"}
     /\ h.repoResult = "ok"
     /\ h.status = "raised"
     /\ h.exc # "CancelledError"
     /\ ~(LastCall = "get_user_info" /\ h.exc = "OtherError"))
    => LastCall = "publish"


\* C35: an event on the postrender topic whose template is one of the technote
\* postrender handler's LaTeX templates is routed to that handler, which
\* starts the submodule pull request once.
C35_LatexTechnotesReachPostrender ==
    (/\ topic = PostrenderTopic
     /\ pc # "deserializing"
     /\ ev.template_name \in TechnoteLatexTemplates
     /\ ev.vars_ok)
    => /\ invoked = <<"technote_postrender">>
       /\ Cardinality(CallsOf("pr_get_user")) = 1


\* A repository name <P>-<digits>, compared without regard to case, where P
\* is a known technote handle prefix.
IsTechnoteRepoName(str) ==
    \E k \in 2..(Len(str) - 1) :
        /\ str[k] = "-"
        /\ SubSeq(lower(str), 1, k - 1) \in {lower(p) : p \in KNOWN_TECHNOTE_HANDLES}
        /\ \A j \in (k + 1)..Len(str) : str[j] \in Digit

\* C36: handle_document_prerender never calls create_repo with a technote
\* repository name, whatever the handle, series and serial_number variables.
C36_NoTechnoteRepoFromDocument ==
    (h.name = "document_prerender" /\ CallsOf("create_repo") # {})
    => ~IsTechnoteRepoName(h.repo_name)


\* C37: a prerender handler leaves the event it was called with as it was:
\* after the title was cleaned, the event's title is still the one received.
C37_IncomingEventUnchanged ==
    ti_pc = "returned" => ti_event = ti_title


C40_NonSslStartupContinues ==
    (/\ config.kafkaProtocol # "SSL"
     /\ app_pc \notin {"init_http_session", "init_gidgethub_session",
                       "configure_kafka_ssl"})
    => /\ sslContext = "None"
       /\ app_pc # "failed"
       /\ startupError = "none"


\* The number of times a release is in the cleanup log.
Released(what) == Cardinality({k \in DOMAIN sh_log : sh_log[k] = what})

\* C39: when the producer has been stopped or the HTTP session closed, the
\* consumption task has already been cancelled and has ended; and each of
\* the two is released at most once.
C39_TaskEndsBeforeTeardown ==
    /\ (producer = "stopped" \/ httpSession = "closed") =>
          (cancelAt # "none" /\ pc = "done")
    /\ Released("producer.stop") <= 1
    /\ Released("httpSession.close") <= 1

====
